---- MODULE Spec2Model ----
(***************************************************************************)
(* SolidFed: asynchronous federated aggregation.                           *)
(*                                                                         *)
(* A model of the server's upload path (POST /upload, ModelService         *)
(* .processUpdate, ModelService.saveGlobalModel) and of the aggregation    *)
(* function (aggregateModels, federatedAverage) against a Solid Pod that   *)
(* is an external store; and of the client's differential-privacy step    *)
(* (clipWeights, applyDifferentialPrivacy).                                *)
(*                                                                         *)
(* Weights are float32 values.  The model holds a weight as an exact       *)
(* fraction <<n, d>> with d > 0, and <<0, 0>> for NaN; for the dyadic      *)
(* values and learning rates used here float32 arithmetic is exact, so     *)
(* the fraction is the float.  A byte payload is the sequence of its       *)
(* whole 4-byte floats plus the number of bytes (0..3) left over.          *)
(***************************************************************************)
EXTENDS Integers, Sequences, FiniteSets, TLC

VARIABLES
  config,         \* config.aggregation: saveHistory, backupModels, maxBackups
  learningRate,   \* ModelService.learningRate (config.aggregation.learningRate)
  historyWritable,\* whether this run's writes under historyDir/<model> succeed
  backupWritable, \* whether this run's writes under historyDir/<model>/models do
  store,          \* the Pod: model key -> globalModel.bin content, or NotFound
  writer,         \* the invocation whose put last wrote store[key] (0: none)
  pc,             \* each request's position in the /upload handler
  req,            \* each request's headers and body
  fetched,        \* how the GET of the baseline ended: "ok", "empty" (ok, no
                  \* bytes) or "failed" (a non-ok status, or the fetch threw)
  baseline,       \* processUpdate's currentGlobalModel
  merged,         \* processUpdate's aggregatedModel
  attempt,        \* saveGlobalModel's attempt counter
  events,         \* each invocation's put attempts and backoff waits, in order
  history,        \* aggregation history records written, per invocation
  backups,        \* local backup files written, per invocation, and
                  \* whether each is still on the disk
  resp,           \* the HTTP response of each request
  mergeIn,        \* arguments of a direct federatedAverage / aggregateModels call
  mergeOut,       \* its outcome
  mergeHistory,   \* the history records that call wrote
  privIn,         \* arguments of a direct call of a privacy.js function
  privOut,        \* its outcome
  cpc,            \* trainWithDP: the step the client is at
  files,          \* the client's localWeights.bin and dp_weights.bin
  dpWeightsBuffer, \* trainWithDP: the buffer applyDifferentialPrivacy returned
  dpParams,       \* trainWithDP: the privacy parameters of the run
  sent,           \* the POSTs to /upload the client has made
  runs,           \* the trainWithDP runs that have ended
  registration,   \* POST /register, per request: the step the handler is
                  \* at, the model it is for, what its HEAD saw, the ACL it
                  \* read and its response
  acl,            \* the access each agent has on each model container
  server          \* serviceSession, modelService, serverReady, initPromise,
                  \* and the requests at the ensureInitialized middleware

\* What is fixed for a run: the configuration and the state of the local disk.
env == <<config, learningRate, historyWritable, backupWritable>>

\* The state of direct calls of the library functions.
library == <<mergeIn, mergeOut, mergeHistory, privIn, privOut>>

\* The state of the client.
client == <<cpc, files, dpWeightsBuffer, dpParams, sent, runs>>

\* The state of the server's upload path.
service == <<env, store, writer, pc, req, fetched, baseline, merged, attempt,
             events, history, backups, resp>>

\* What the upload path leaves alone.
\* The Pod's access control lists and the server's initialisation.
access == <<acl, server>>

direct == <<library, client, registration, access>>

vars == <<env, store, writer, pc, req, fetched, baseline, merged, attempt,
          events, history, backups, resp, direct>>

----------------------------------------------------------------------------
(* Bounds                                                                  *)

NumRequests == 2
MaxUpdates == 2
MaxIterations == 3
MaxRuns == 2
NumRegistrations == 2

Procs == 1..NumRequests

----------------------------------------------------------------------------
(* Float values as exact fractions                                         *)

NaN == <<0, 0>>

Abs(x) == IF x < 0 THEN -x ELSE x

RECURSIVE GCD(_, _)
GCD(a, b) == IF b = 0 THEN a ELSE GCD(b, a % b)

RNorm(n, d) ==
  LET g == GCD(Abs(n), d) IN <<n \div g, d \div g>>

IsNaN(x) == x[2] = 0

\* The sum, over the least common denominator.
RAdd(x, y) ==
  IF IsNaN(x) \/ IsNaN(y) THEN NaN
  ELSE LET g == GCD(x[2], y[2])
       IN RNorm(x[1] * (y[2] \div g) + y[1] * (x[2] \div g),
                (x[2] \div g) * y[2])

RMul(x, y) ==
  IF IsNaN(x) \/ IsNaN(y) THEN NaN
  ELSE RNorm(x[1] * y[1], x[2] * y[2])

RSub(x, y) == RAdd(x, <<-y[1], y[2]>>)

RDivInt(x, k) ==
  IF IsNaN(x) THEN NaN ELSE RNorm(x[1], x[2] * k)

One == <<1, 1>>
Zero == <<0, 1>>

RECURSIVE Pow2(_)
Pow2(k) == IF k = 0 THEN 1 ELSE 2 * Pow2(k - 1)

----------------------------------------------------------------------------
(* Binary floating point                                                   *)
(*                                                                         *)
(* JavaScript numbers are doubles and the elements of a Float32Array are   *)
(* float32 values: every arithmetic operation gives the double nearest to  *)
(* its exact result (ties to even), and a store into a Float32Array gives  *)
(* the float32 nearest to the double stored.  A binary value is            *)
(* <<s, m, e>>, standing for s * m * 2^e: s is 1 or -1 (0 for NaN), m a    *)
(* natural number of any size written as a sequence of digits of 15 bits,  *)
(* the lowest first and the highest not 0, and e the exponent.  Overflow   *)
(* to Infinity and the subnormal numbers are beyond the fractions above.   *)

\* A value computed once and used under a name, as a const declaration
\* does: F applied to the value of v.
Once(v, F(_)) == CHOOSE r \in {F(c) : c \in {v}} : TRUE

Radix == Pow2(15)

LimbAt(a, i) == IF i <= Len(a) THEN a[i] ELSE 0

RECURSIVE BTrim(_)
BTrim(a) ==
  IF a = <<>> \/ a[Len(a)] # 0 THEN a ELSE BTrim(SubSeq(a, 1, Len(a) - 1))

RECURSIVE BFromInt(_)
BFromInt(n) == IF n = 0 THEN <<>> ELSE <<n % Radix>> \o BFromInt(n \div Radix)

RECURSIVE BToInt(_)
BToInt(a) == IF a = <<>> THEN 0 ELSE a[1] + Radix * BToInt(Tail(a))

RECURSIVE BAddFrom(_, _, _, _)
BAddFrom(a, b, i, c) ==
  IF i > Len(a) /\ i > Len(b) THEN (IF c = 0 THEN <<>> ELSE <<c>>)
  ELSE LET s == LimbAt(a, i) + LimbAt(b, i) + c
       IN <<s % Radix>> \o BAddFrom(a, b, i + 1, s \div Radix)

BAdd(a, b) == BAddFrom(a, b, 1, 0)

\* a - b, for a >= b.
RECURSIVE BSubFrom(_, _, _, _)
BSubFrom(a, b, i, c) ==
  IF i > Len(a) THEN <<>>
  ELSE LET s == a[i] - LimbAt(b, i) - c
       IN <<(s + Radix) % Radix>>
            \o BSubFrom(a, b, i + 1, IF s < 0 THEN 1 ELSE 0)

BSub(a, b) == BTrim(BSubFrom(a, b, 1, 0))

\* a * k, for a digit k.
RECURSIVE BMulSmallFrom(_, _, _, _)
BMulSmallFrom(a, k, i, c) ==
  IF i > Len(a) THEN (IF c = 0 THEN <<>> ELSE <<c>>)
  ELSE LET s == a[i] * k + c
       IN <<s % Radix>> \o BMulSmallFrom(a, k, i + 1, s \div Radix)

BMulSmall(a, k) == IF k = 0 THEN <<>> ELSE BMulSmallFrom(a, k, 1, 0)

RECURSIVE BMulFrom(_, _, _)
BMulFrom(a, b, j) ==
  IF j > Len(b) THEN <<>>
  ELSE LET rest == BMulFrom(a, b, j + 1)
       IN BAdd(BMulSmall(a, b[j]), IF rest = <<>> THEN <<>> ELSE <<0>> \o rest)

BMul(a, b) == BMulFrom(a, b, 1)

RECURSIVE BCmpFrom(_, _, _)
BCmpFrom(a, b, i) ==
  IF i = 0 THEN 0
  ELSE IF a[i] # b[i] THEN (IF a[i] < b[i] THEN -1 ELSE 1)
  ELSE BCmpFrom(a, b, i - 1)

\* -1, 0 or 1 as a is below, equal to or above b.
BCmp(a, b) ==
  IF Len(a) # Len(b) THEN (IF Len(a) < Len(b) THEN -1 ELSE 1)
  ELSE BCmpFrom(a, b, Len(a))

RECURSIVE IntBits(_)
IntBits(n) == IF n = 0 THEN 0 ELSE 1 + IntBits(n \div 2)

\* The number of binary digits of a.
BBitLen(a) == IF a = <<>> THEN 0 ELSE 15 * (Len(a) - 1) + IntBits(a[Len(a)])

\* a * 2^k.
BShl(a, k) ==
  IF a = <<>> THEN <<>>
  ELSE [i \in 1..(k \div 15) |-> 0] \o BMulSmall(a, Pow2(k % 15))

\* a \div 2^k.
BShr(a, k) ==
  LET t == IF k \div 15 >= Len(a) THEN <<>>
           ELSE SubSeq(a, k \div 15 + 1, Len(a))
      low == Pow2(k % 15)
  IN BTrim([i \in 1..Len(t) |->
              t[i] \div low + (LimbAt(t, i + 1) % low) * (Radix \div low)])

\* x with its digits cut to the p highest: the value of p binary digits
\* nearest to x, and of the two nearest the one with an even last digit when
\* x is half way between them.
RoundTo(x, p) ==
  LET k == BBitLen(x[2]) - p
  IN IF k <= 0 THEN x
     ELSE LET q == BShr(x[2], k)
              c == BCmp(BSub(x[2], BShl(q, k)), BShl(<<1>>, k - 1))
          IN <<x[1],
               IF c > 0 \/ (c = 0 /\ q[1] % 2 = 1) THEN BAdd(q, <<1>>) ELSE q,
               x[3] + k>>

DNaN == <<0, <<>>, 0>>
DZero == <<1, <<>>, 0>>

FromInt(n) == <<IF n < 0 THEN -1 ELSE 1, BFromInt(Abs(n)), 0>>

\* x * y in doubles.
DMul(x, y) ==
  IF x[1] = 0 \/ y[1] = 0 THEN DNaN
  ELSE IF x[2] = <<>> \/ y[2] = <<>> THEN DZero
  ELSE RoundTo(<<x[1] * y[1], BMul(x[2], y[2]), x[3] + y[3]>>, 53)

\* x + y in doubles.
DAdd(x, y) ==
  IF x[1] = 0 \/ y[1] = 0 THEN DNaN
  ELSE IF x[2] = <<>> THEN y
  ELSE IF y[2] = <<>> THEN x
  ELSE LET e == IF x[3] < y[3] THEN x[3] ELSE y[3]
           a == BShl(x[2], x[3] - e)
           b == BShl(y[2], y[3] - e)
           c == BCmp(a, b)
       IN IF x[1] = y[1] THEN RoundTo(<<x[1], BAdd(a, b), e>>, 53)
          ELSE IF c = 0 THEN DZero
          ELSE IF c > 0 THEN RoundTo(<<x[1], BSub(a, b), e>>, 53)
          ELSE RoundTo(<<y[1], BSub(b, a), e>>, 53)

DSub(x, y) == DAdd(x, <<-y[1], y[2], y[3]>>)

\* Long division, one binary digit at a time: n more digits of the quotient
\* qr[1], with the remainder qr[2] below the divisor b.  It stops when the
\* division comes out even; the result is <<quotient, remainder, digits not
\* made>>.
RECURSIVE DivSteps(_, _, _)
DivSteps(qr, b, n) ==
  IF n = 0 \/ qr[2] = <<>> THEN <<qr[1], qr[2], n>>
  ELSE LET r2 == BMulSmall(qr[2], 2)
       IN IF BCmp(r2, b) >= 0
            THEN DivSteps(<<BAdd(BMulSmall(qr[1], 2), <<1>>), BSub(r2, b)>>,
                          b, n - 1)
          ELSE DivSteps(<<BMulSmall(qr[1], 2), r2>>, b, n - 1)

\* x / y for x, y # 0: exactly, when the division comes out even within
\* 56 digits, and otherwise cut there with one more digit 1 after
\* it, which rounds as the exact quotient does.
Quotient(x, y) ==
  LET t == BBitLen(x[2]) - BBitLen(y[2])
      a == IF t < 0 THEN BShl(x[2], -t) ELSE x[2]
      b == IF t > 0 THEN BShl(y[2], t) ELSE y[2]
      d == DivSteps(IF BCmp(a, b) >= 0 THEN <<<<1>>, BSub(a, b)>>
                    ELSE <<<<>>, a>>, b, 56)
      made == 56 - d[3]
  IN IF d[2] = <<>> THEN <<x[1] * y[1], d[1], x[3] - y[3] + t - made>>
     ELSE <<x[1] * y[1], BAdd(BMulSmall(d[1], 2), <<1>>),
            x[3] - y[3] + t - made - 1>>

\* x / y in doubles.  (x / 0 is infinite or NaN: NaN here.)
DDiv(x, y) ==
  IF x[1] = 0 \/ y[1] = 0 \/ y[2] = <<>> THEN DNaN
  ELSE IF x[2] = <<>> THEN DZero
  ELSE RoundTo(Quotient(x, y), 53)

\* x < y, for doubles; false when either is NaN.
DLess(x, y) ==
  LET d == DSub(x, y) IN d[1] = -1 /\ d[2] # <<>>

\* The integer square root, one binary digit at a time: st is <<what is left
\* of the number, the root so far>> and bit the power of 4 of the digit; the
\* result is <<remainder, root>>.
RECURSIVE SqrtSteps(_, _)
SqrtSteps(st, bit) ==
  IF bit = <<>> THEN st
  ELSE LET t == BAdd(st[2], bit)
       IN IF BCmp(st[1], t) >= 0
            THEN SqrtSteps(<<BSub(st[1], t), BAdd(BShr(st[2], 1), bit)>>,
                           BShr(bit, 2))
          ELSE SqrtSteps(<<st[1], BShr(st[2], 1)>>, BShr(bit, 2))

BSqrt(m) ==
  SqrtSteps(<<m, <<>>>>, BShl(<<1>>, 2 * ((BBitLen(m) - 1) \div 2)))

\* Math.sqrt(x): the double nearest to the square root.  The root of
\* m * 2^e with e even is taken of m exactly when m is a square, and
\* otherwise of m * 4^k to 55 digits and more, with one more digit 1 after
\* them.
DSqrt(x) ==
  IF x[1] # 1 THEN DNaN
  ELSE IF x[2] = <<>> THEN DZero
  ELSE LET m == IF x[3] % 2 = 0 THEN x[2] ELSE BMulSmall(x[2], 2)
           e == IF x[3] % 2 = 0 THEN x[3] ELSE x[3] - 1
           s == BSqrt(m)
           k == (111 - BBitLen(m)) \div 2
           big == BSqrt(BShl(m, 2 * k))
       IN IF s[1] = <<>> THEN <<1, s[2], e \div 2>>
          ELSE RoundTo(<<1, BAdd(BMulSmall(big[2], 2), <<1>>),
                         e \div 2 - k - 1>>, 53)

\* The double a fraction stands for: the fraction itself when its
\* denominator is a power of two, as that of every float32 value is, and the
\* double nearest to it otherwise (0.1 for 1/10).
ToDouble(x) ==
  IF IsNaN(x) THEN DNaN ELSE DDiv(FromInt(x[1]), FromInt(x[2]))

\* m * 2^e with the factors of two taken out of m while e is negative.
RECURSIVE Reduce(_, _)
Reduce(m, e) ==
  IF e < 0 /\ m % 2 = 0 THEN Reduce(m \div 2, e + 1) ELSE <<m, e>>

\* The fraction of a binary value.
FromBinary(x) ==
  IF x[1] = 0 THEN NaN
  ELSE IF x[2] = <<>> THEN Zero
  ELSE LET r == Reduce(BToInt(x[2]), x[3])
       IN IF r[2] >= 0 THEN <<x[1] * r[1] * Pow2(r[2]), 1>>
          ELSE <<x[1] * r[1], Pow2(-r[2])>>

\* The store of a double into a Float32Array element: the float32 nearest
\* to it, ties to even.
Float32Of(x) == FromBinary(RoundTo(x, 24))

----------------------------------------------------------------------------
(* Byte payloads                                                           *)

Null == [kind |-> "null"]
NotFound == [kind |-> "notfound"]

Bytes(w, extra) == [kind |-> "bytes", w |-> w, extra |-> extra]

IsBytes(b) == b.kind = "bytes"

ByteLength(b) == 4 * Len(b.w) + b.extra

EmptyBytes == Bytes(<<>>, 0)

----------------------------------------------------------------------------
(* aggregation.js                                                          *)

\* bufferToFloat32Array: new Float32Array(arrayBuffer) throws a RangeError
\* when the byte length is not a multiple of 4.
Decodable(b) == ByteLength(b) % 4 = 0

bufferToFloat32Array(b) == b.w

\* typedArray[i]: undefined past the end, and undefined / n is NaN.
WeightAt(w, i) == IF i <= Len(w) THEN w[i] ELSE NaN

UpdateSizesAgreeAlways(ws) == TRUE

\* The loop "for (i = 1; i < updates.length; i++) if (length !== firstUpdateSize) throw".
UpdateSizesAgree(ws) ==
  \A i \in 2..Len(ws) : Len(ws[i]) = Len(ws[1])

\* A variant that adds the weights up and never divides by the number of updates.
RECURSIVE AvgAtUndivided(_, _, _)
AvgAtUndivided(ws, i, k) ==
  IF k = 0 THEN Zero
  ELSE Float32Of(DAdd(ToDouble(AvgAtUndivided(ws, i, k - 1)),
                      ToDouble(WeightAt(ws[k], i))))

\* aggregatedWeights[i] += update.weights[i] / updates.length, over the first
\* k updates: the quotient and the sum are doubles, and the array is a
\* Float32Array, so every += stores the float32 nearest to the sum.
RECURSIVE AvgAt(_, _, _)
AvgAt(ws, i, k) ==
  IF k = 0 THEN Zero
  ELSE Float32Of(DAdd(ToDouble(AvgAt(ws, i, k - 1)),
                      DDiv(ToDouble(WeightAt(ws[k], i)), FromInt(Len(ws)))))

Average(ws, size) == [i \in 1..size |-> AvgAt(ws, i, Len(ws))]

\* options.learningRate || 0.1.  The rate is a double: 1/10 stands for 0.1,
\* the double nearest to it (ToDouble).
DefaultLearningRate == <<1, 10>>

EffectiveLearningRate(lr) == IF lr[1] = 0 THEN DefaultLearningRate ELSE lr

\* A variant whose coefficients do not add up to 1.
BlendUnnormalised(g, avg, lr) ==
  Float32Of(DAdd(ToDouble(g), DMul(ToDouble(lr), ToDouble(avg))))

\* A variant with the two coefficients exchanged.
BlendSwapped(g, avg, lr) ==
  Float32Of(DAdd(DMul(ToDouble(lr), ToDouble(g)),
                 DMul(DSub(FromInt(1), ToDouble(lr)), ToDouble(avg))))

\* aggregatedWeights[i] = (1 - learningRate) * aggregatedWeights[i]
\*                        + learningRate * clientUpdatesAvg[i]:
\* the difference, the two products and the sum are computed in doubles, one
\* after the other, and the sum is stored into the Float32Array.
Blend(g, avg, lr) ==
  Float32Of(DAdd(DMul(DSub(FromInt(1), ToDouble(lr)), ToDouble(g)),
                 DMul(ToDouble(lr), ToDouble(avg))))

\* A variant that never reads the baseline.
UsesBaselineNever(currentGlobalModel, isAsyncUpdate) == FALSE

\* The baseline is used when it is given, the update is asynchronous and the
\* sizes agree; otherwise federatedAverage falls back to the plain average.
UsesBaseline(currentGlobalModel, isAsyncUpdate) ==
  IsBytes(currentGlobalModel) /\ isAsyncUpdate

Thrown(e) == [ok |-> FALSE, error |-> e]
Returned(b) == [ok |-> TRUE, data |-> b]

federatedAverage(modelUpdates, currentGlobalModel, lr, isAsyncUpdate) ==
  IF \E k \in 1..Len(modelUpdates) : ~Decodable(modelUpdates[k].data)
    THEN Thrown("RangeError")
  ELSE IF Len(modelUpdates) = 0
    THEN Thrown("TypeError")
  ELSE
    LET ws == [k \in 1..Len(modelUpdates) |->
                 bufferToFloat32Array(modelUpdates[k].data)]
        firstUpdateSize == Len(ws[1])
    IN
    IF ~UpdateSizesAgree(ws)
      THEN Thrown("SizeMismatch")
    ELSE IF UsesBaseline(currentGlobalModel, isAsyncUpdate)
      THEN
        IF ~Decodable(currentGlobalModel)
          THEN Thrown("RangeError")
        ELSE
          LET globalWeights == bufferToFloat32Array(currentGlobalModel) IN
          IF Len(globalWeights) # firstUpdateSize
            THEN Returned(Bytes(Average(ws, firstUpdateSize), 0))
          ELSE
            LET avg == Average(ws, firstUpdateSize)
                rate == EffectiveLearningRate(lr)
            IN Returned(Bytes([i \in 1..firstUpdateSize |->
                                 Blend(globalWeights[i], avg[i], rate)], 0))
    ELSE Returned(Bytes(Average(ws, firstUpdateSize), 0))

\* The record saveAggregationHistory writes.  Its round is
\* modelUpdates[0]?.round || 'unknown': that of the first update, and
\* 'unknown' when there is none or it is falsy (the empty string here).
HistoryRecord(modelUpdates, modelName, currentGlobalModel) ==
  [modelName |-> modelName,
   numUpdates |-> Len(modelUpdates),
   clientIds |-> [k \in 1..Len(modelUpdates) |-> modelUpdates[k].clientId],
   round |-> IF Len(modelUpdates) > 0 /\ modelUpdates[1].round # ""
               THEN modelUpdates[1].round ELSE "unknown",
   currentGlobalModel |-> IF IsBytes(currentGlobalModel) THEN "present" ELSE "absent"]

Update(clientId, data, round) ==
  [clientId |-> clientId, data |-> data, round |-> round]

----------------------------------------------------------------------------
(* modelService.js                                                         *)

\* modelName.replace(/\s+/g, '-'): every run of whitespace becomes one hyphen.
RECURSIVE DropSpaces(_)
DropSpaces(s) ==
  IF s = <<>> \/ Head(s) # " " THEN s ELSE DropSpaces(Tail(s))

RECURSIVE CollapseSpaces(_)
CollapseSpaces(s) ==
  IF s = <<>> THEN <<>>
  ELSE IF Head(s) = " " THEN <<"-">> \o CollapseSpaces(DropSpaces(s))
  ELSE <<Head(s)>> \o CollapseSpaces(Tail(s))

\* .replace(/[^a-zA-Z0-9-]/g, '')
SafeChars == {"a", "b", "m", "A", "0", "1", "-"}

RECURSIVE StripUnsafe(_)
StripUnsafe(s) ==
  IF s = <<>> THEN <<>>
  ELSE IF Head(s) \in SafeChars THEN <<Head(s)>> \o StripUnsafe(Tail(s))
  ELSE StripUnsafe(Tail(s))

\* The model key: podRoot + safeModelName + "/" (podRoot is the same for all).
getModelFolderUrl(modelName) == StripUnsafe(CollapseSpaces(modelName))

maxRetriesFour == 3 + 1

maxRetries == 3

LoopContinuesIgnoringSuccess(a, success) == a < maxRetries

\* while (attempt < maxRetries && !success)
LoopContinues(a, success) == a < maxRetries /\ ~success

RetryAllowedOffByOne(a) == a <= maxRetries

\* catch: if (attempt < maxRetries) wait, else throw
RetryAllowed(a) == a < maxRetries

BackoffDelayConstant(a) == 1000

\* const delay = 1000 * attempt
BackoffDelay(a) == 1000 * a

FetchedModelKeepingEmpty(outcome, content) ==
  IF outcome = "ok" THEN content ELSE Null

\* currentGlobalModel after the GET: the body when the response is ok and
\* not empty, null otherwise (non-ok status, empty body, fetch threw).
FetchedModel(outcome, content) ==
  IF outcome = "ok" /\ ByteLength(content) > 0 THEN content ELSE Null

----------------------------------------------------------------------------
(* Inputs                                                                  *)

V(a, b) == <<<<a, 1>>, <<b, 1>>>>

\* The model names requests carry, as character sequences.
ModelNames == {<<"m">>}

Keys == {getModelFolderUrl(n) : n \in ModelNames}

\* Contributor p's WebID, and the weights its training produced.
WebIdOf(p) == <<"contributor", p>>

WeightsOf(p) == Bytes(V(2 * p, 2), 0)

GoodRequest(p) ==
  [webid |-> WebIdOf(p), round |-> "1", modelName |-> <<"m">>,
   body |-> WeightsOf(p)]

\* The requests contributor p may send: its update; a body of five bytes;
\* an empty body; its update with one of the three headers left out.
Requests(p) ==
  {GoodRequest(p),
   [GoodRequest(p) EXCEPT !.body = Bytes(<<<<2, 1>>>>, 1)],
   [GoodRequest(p) EXCEPT !.body = EmptyBytes],
   [GoodRequest(p) EXCEPT !.webid = <<>>],
   [GoodRequest(p) EXCEPT !.round = ""],
   [GoodRequest(p) EXCEPT !.modelName = <<>>]}

\* What the Pod may hold for globalModel.bin before the first request:
\* nothing, an empty file, two floats, one float, six bytes.
InitialModels ==
  {NotFound, EmptyBytes, Bytes(V(0, 0), 0), Bytes(<<<<0, 1>>>>, 0),
   Bytes(<<<<0, 1>>>>, 2)}

\* LEARNING_RATE values (validateConfig: 0 < learningRate <= 1): the default
\* 0.1, 1/2 and 1.
LearningRates == {<<1, 10>>, <<1, 2>>, <<1, 1>>}

\* config.aggregation as the environment leaves it by default: SAVE_HISTORY
\* and BACKUP_MODELS are not 'false', MAX_BACKUPS is not set.
DefaultConfig == [saveHistory |-> TRUE, backupModels |-> TRUE, maxBackups |-> 10]

\* SAVE_HISTORY and BACKUP_MODELS 'false' or not; MAX_BACKUPS 1 or not set.
Configs == [saveHistory : BOOLEAN, backupModels : BOOLEAN, maxBackups : {1, 10}]

NoRequest == [webid |-> <<>>, round |-> "", modelName |-> <<>>, body |-> EmptyBytes]

NoResponse == [status |-> 0, success |-> FALSE, url |-> <<>>, details |-> ""]

NoCall == [kind |-> "none"]

\* A file of the client that does not exist.
NoFile == [kind |-> "nofile"]

NoParams == [kind |-> "none"]

\* No agent has been given access to a model container.
NoAccess == [read |-> FALSE, append |-> FALSE, write |-> FALSE,
             control |-> FALSE]

Agents == {<<"alice">>, <<"bob">>}

\* An ACL without rules for the agents.
NoRules == [a \in Agents |-> [resource |-> NoAccess, default |-> NoAccess]]

NoAcl == [k \in Keys |-> NoRules]

\* The POST /register requests in progress at one time.
Registrations == 1..NumRegistrations

\* No request is at the middleware.
NoArrival == [at |-> "none", route |-> "", waited |-> FALSE]

\* The server after initializeServer has succeeded.
ReadyServer ==
  [initPromise |-> "fulfilled", serviceSession |-> "loggedIn",
   modelService |-> "constructed", serverReady |-> TRUE, listening |-> TRUE,
   exited |-> FALSE, inFlight |-> 0, logins |-> 1, services |-> 1,
   requests |-> [r \in Procs |-> NoArrival]]

\* No POST /register is in progress.
NoRegistration ==
  [r \in Registrations |->
     [pc |-> "idle", webId |-> <<>>, modelName |-> <<>>, head |-> "none",
      dsWithAcl |-> NoRules, resp |-> NoResponse]]

\* No trainWithDP has run: localWeights.bin does not exist, dp_weights.bin
\* does not exist or is left over from an earlier session.
ClientStart(dpFiles) ==
  /\ cpc = "idle"
  /\ files \in [local : {NoFile}, dp : dpFiles]
  /\ dpWeightsBuffer = Null
  /\ dpParams = NoParams
  /\ sent = <<>>
  /\ runs = 0

----------------------------------------------------------------------------
(* server.js: POST /upload, and ModelService.processUpdate                 *)

KeyOf(p) == getModelFolderUrl(req[p].modelName)

UpdateOf(p) == Update(req[p].webid, req[p].body, req[p].round)

Respond(p, r) ==
  /\ resp' = [resp EXCEPT ![p] = r]
  /\ pc' = [pc EXCEPT ![p] = "done"]

Failure(status, details) ==
  [status |-> status, success |-> FALSE, url |-> <<>>, details |-> details]

Success(url) ==
  [status |-> 200, success |-> TRUE, url |-> url, details |-> ""]

\* A variant that lets every body through.
EmptyBodyNever(r) == FALSE

\* if (!req.body || req.body.length === 0), for the Buffer express.raw
\* delivers.
EmptyBody(r) == ByteLength(r.body) = 0

\* if (!webId || !round || !modelName): a header that is absent or the empty
\* string.
MissingHeaders(r) == r.webid = <<>> \/ r.round = "" \/ r.modelName = <<>>

\* The handler up to its first await: header and body validation, then the
\* HEAD request of ensureContainer is sent.
Upload(p, r) ==
  /\ pc[p] = "idle"
  /\ req' = [req EXCEPT ![p] = r]
  /\ IF MissingHeaders(r)
       THEN Respond(p, Failure(400, "Missing required headers"))
     ELSE IF EmptyBody(r)
       THEN Respond(p, Failure(400, "Empty request body"))
     ELSE /\ pc' = [pc EXCEPT ![p] = "container"]
          /\ UNCHANGED resp
  /\ UNCHANGED <<env, store, writer, fetched, baseline,
                 merged, attempt, events, history, backups, direct>>

\* ensureContainer: the HEAD of the container and, when it is not ok,
\* createContainerAt.  The Pod decides how they end: the container is there
\* or is created (processUpdate starts, its GET is sent), or a call throws
\* and ensureContainer returns false.
EnsureContainer(p, ok) ==
  /\ pc[p] = "container"
  /\ IF ok
       THEN /\ pc' = [pc EXCEPT ![p] = "fetch"]
            /\ UNCHANGED resp
       ELSE Respond(p, Failure(500, "Failed to ensure container"))
  /\ UNCHANGED <<env, store, writer, req, fetched, baseline,
                 merged, attempt, events, history, backups, direct>>

\* A variant that keeps the result of another invocation in the process and
\* hands it out in place of the stored model.
DownloadedModelCached(p) ==
  IF \E q \in Procs \ {p} : IsBytes(merged[q])
    THEN merged[CHOOSE q \in Procs \ {p} : IsBytes(merged[q])]
  ELSE store[KeyOf(p)]

\* The body of the answer to this invocation's GET of globalModel.bin: what
\* the Pod holds under the key at that moment.
DownloadedModel(p) == store[KeyOf(p)]

\* processUpdate: the GET of globalModel.bin ends (ok with the stored bytes,
\* a non-ok status, or the fetch throws); federatedAverage runs on the one
\* update; aggregateModels goes on to saveAggregationHistory.  An error
\* thrown by federatedAverage leaves processUpdate and the handler answers 500.
FetchBaseline(p, outcome) ==
  /\ pc[p] = "fetch"
  /\ outcome = "ok" => IsBytes(DownloadedModel(p))
  /\ LET model == FetchedModel(outcome, DownloadedModel(p))
         r == federatedAverage(<<UpdateOf(p)>>, model, learningRate, TRUE)
     IN /\ fetched' = [fetched EXCEPT ![p] =
             IF outcome # "ok" THEN "failed"
             ELSE IF ByteLength(DownloadedModel(p)) = 0 THEN "empty"
             ELSE "ok"]
        /\ baseline' = [baseline EXCEPT ![p] = model]
        /\ IF r.ok
             THEN /\ merged' = [merged EXCEPT ![p] = r.data]
                  /\ pc' = [pc EXCEPT ![p] = "history"]
                  /\ UNCHANGED resp
             ELSE /\ Respond(p, Failure(500, r.error))
                  /\ UNCHANGED merged
  /\ UNCHANGED <<env, store, writer, req,
                 attempt, events, history, backups, direct>>

\* aggregationOptions.saveHistory: processUpdate passes the literal true;
\* config.aggregation.saveHistory is read by GET /config only.
saveHistoryOption == TRUE

\* aggregateModels: saveAggregationHistory writes the record, or fails and
\* only warns; then saveGlobalModel starts and sends its first PUT.
SaveHistory(p) ==
  /\ pc[p] = "history"
  /\ history' = [history EXCEPT ![p] =
       IF saveHistoryOption /\ historyWritable
         THEN Append(@, HistoryRecord(<<UpdateOf(p)>>, req[p].modelName,
                                          baseline[p]))
       ELSE @]
  /\ IF LoopContinues(attempt[p], FALSE)
       THEN /\ attempt' = [attempt EXCEPT ![p] = @ + 1]
            /\ pc' = [pc EXCEPT ![p] = "put"]
       ELSE /\ pc' = [pc EXCEPT ![p] = "backup"]
            /\ UNCHANGED attempt
  /\ UNCHANGED <<env, store, writer, req, fetched, baseline,
                 merged, events, backups, resp, direct>>

\* A variant whose PUT carries the merged model without its last float.
PutBodyTruncated(p) ==
  Bytes(SubSeq(merged[p].w, 1, Len(merged[p].w) - 1), 0)

PutBodyRemerged(p) ==
  LET stored == store[KeyOf(p)]
      r == federatedAverage(<<UpdateOf(p)>>, FetchedModel("ok", stored),
                            learningRate, TRUE)
  IN IF IsBytes(stored) /\ r.ok THEN r.data ELSE merged[p]

\* A variant whose PUT carries the update as it was sent.
PutBodySubmitted(p) == req[p].body

\* body: modelData -- the model aggregated from the baseline this
\* invocation fetched.
PutBody(p) == merged[p]

\* A variant in which the loop is left after the last failure and the URL
\* returned all the same.
ExhaustedAnswerReturnsUrl(p) == Success(KeyOf(p))

\* saveGlobalModel after the last failed attempt: throw new Error('Failed to
\* save global model: ' + the last error's message); processUpdate rethrows
\* and the handler answers 500 with that message as details.
ExhaustedAnswer(p) == Failure(500, "Failed to save global model")

\* saveGlobalModel: one PUT ends.  On success the loop is left and the URL
\* returned (the backup write starts); on a non-ok status or a throw the
\* catch block waits when attempts remain, and throws otherwise.
PutResponse(p, outcome) ==
  /\ pc[p] = "put"
  /\ events' = [events EXCEPT ![p] =
       LET e == Append(@, [op |-> "put", n |-> attempt[p], ms |-> 0,
                           ok |-> (outcome = "ok")])
       IN IF outcome # "ok" /\ RetryAllowed(attempt[p])
            THEN Append(e, [op |-> "wait", n |-> attempt[p],
                            ms |-> BackoffDelay(attempt[p]), ok |-> FALSE])
          ELSE e]
  /\ IF outcome = "ok"
       THEN /\ store' = [store EXCEPT ![KeyOf(p)] = PutBody(p)]
            /\ writer' = [writer EXCEPT ![KeyOf(p)] = p]
            /\ IF LoopContinues(attempt[p], TRUE)
                 THEN /\ attempt' = [attempt EXCEPT ![p] = @ + 1]
                      /\ UNCHANGED pc
                 ELSE /\ pc' = [pc EXCEPT ![p] = "backup"]
                      /\ UNCHANGED attempt
            /\ UNCHANGED resp
       ELSE /\ UNCHANGED <<store, writer, attempt>>
            /\ IF RetryAllowed(attempt[p])
                 THEN /\ pc' = [pc EXCEPT ![p] = "backoff"]
                      /\ UNCHANGED resp
                 ELSE Respond(p, ExhaustedAnswer(p))
  /\ UNCHANGED <<env, req, fetched, baseline, merged,
                 history, backups, direct>>

\* saveGlobalModel: the backoff timer fires; the loop condition is tested
\* and the next PUT is sent.
Backoff(p) ==
  /\ pc[p] = "backoff"
  /\ IF LoopContinues(attempt[p], FALSE)
       THEN /\ attempt' = [attempt EXCEPT ![p] = @ + 1]
            /\ pc' = [pc EXCEPT ![p] = "put"]
       ELSE /\ pc' = [pc EXCEPT ![p] = "backup"]
            /\ UNCHANGED attempt
  /\ UNCHANGED <<env, store, writer, req, fetched, baseline,
                 merged, events, history, backups, resp, direct>>

\* A variant in which a failed backup write makes the invocation fail.
ProcessUpdateReturnFatal(p, backupWritten) ==
  IF backupWritten THEN Success(KeyOf(p))
  ELSE Failure(500, "Unable to save model backup")

\* return modelUrl, after the try block of the backup whose catch only warns:
\* the handler answers 200 with the URL whether the backup was written or not.
ProcessUpdateReturn(p, backupWritten) == Success(KeyOf(p))

\* The backoff waits this invocation has begun.
WaitsOf(p) == Len(SelectSeq(events[p], LAMBDA e : e.op = "wait"))

\* The millisecond of the latest backup written (0: none yet), counted in
\* the milliseconds at which backups were written.
LastTick ==
  LET ticks == UNION {{backups[q][i].name[3] : i \in 1..Len(backups[q])} :
                        q \in Procs}
  IN IF ticks = {} THEN 0 ELSE CHOOSE t \in ticks : \A u \in ticks : u <= t

\* new Date() can still read the millisecond of the latest backup: this
\* invocation has not begun a backoff wait (of a second or more) after a
\* backup of that millisecond was written.
SameMillisecond(p) ==
  /\ LastTick > 0
  /\ \A q \in Procs : \A i \in 1..Len(backups[q]) :
       backups[q][i].name[3] = LastTick => backups[q][i].waits[p] = WaitsOf(p)

\* path.join(this.historyDir, modelName, 'models') and
\* `global_model_r${round}_${timestamp}.bin`: the directory is named by the
\* modelName as sent, the file by the round and the millisecond.
BackupPath(p, tick) == <<req[p].modelName, req[p].round, tick>>

\* fs.writeFile(backupPath, aggregatedModel) by invocation p: a file of that
\* path written earlier is overwritten (kept = FALSE).  An entry also
\* notes the waits every invocation had begun when it was written.
WriteBackup(p, path) ==
  [q \in Procs |->
     LET old == [i \in 1..Len(backups[q]) |->
                   IF backups[q][i].name = path
                     THEN [backups[q][i] EXCEPT !.kept = FALSE]
                   ELSE backups[q][i]]
     IN IF q = p
          THEN Append(old, [name |-> path, data |-> merged[p], kept |-> TRUE,
                            waits |-> [r \in Procs |-> WaitsOf(r)]])
        ELSE old]

\* processUpdate: the local backup is written, or fails and only warns;
\* processUpdate returns the URL and the handler answers 200.  The write is
\* in no condition: config.aggregation.backupModels and maxBackups are not
\* read.  The file is named by round and time: the clock reads a later
\* millisecond than that of the latest backup or, when it can, the same
\* one, and then a backup of this model and round written in that
\* millisecond is overwritten.
Backup(p, sameMs) ==
  /\ pc[p] = "backup"
  /\ sameMs => SameMillisecond(p)
  /\ backups' =
       IF backupWritable
         THEN WriteBackup(p, BackupPath(p, IF sameMs THEN LastTick
                                           ELSE LastTick + 1))
       ELSE backups
  /\ Respond(p, ProcessUpdateReturn(p, backupWritable))
  /\ UNCHANGED <<env, store, writer, req, fetched, baseline,
                 merged, attempt, events, history, direct>>

Outcomes == {"ok", "notok", "throw"}

Init ==
  /\ config = DefaultConfig
  /\ learningRate \in LearningRates
  /\ historyWritable \in BOOLEAN
  /\ backupWritable \in BOOLEAN
  /\ store \in [Keys -> InitialModels]
  /\ writer = [k \in Keys |-> 0]
  /\ pc = [p \in Procs |-> "idle"]
  /\ req = [p \in Procs |-> NoRequest]
  /\ fetched = [p \in Procs |-> "none"]
  /\ baseline = [p \in Procs |-> Null]
  /\ merged = [p \in Procs |-> Null]
  /\ attempt = [p \in Procs |-> 0]
  /\ events = [p \in Procs |-> <<>>]
  /\ history = [p \in Procs |-> <<>>]
  /\ backups = [p \in Procs |-> <<>>]
  /\ resp = [p \in Procs |-> NoResponse]
  /\ mergeIn = NoCall
  /\ mergeOut = NoCall
  /\ mergeHistory = <<>>
  /\ privIn = NoCall
  /\ privOut = NoCall
  /\ ClientStart({NoFile})
  /\ registration = NoRegistration
  /\ acl = NoAcl
  /\ server = ReadyServer

Next ==
  \/ \E p \in Procs : \E r \in Requests(p) : Upload(p, r)
  \/ \E p \in Procs, ok \in BOOLEAN : EnsureContainer(p, ok)
  \/ \E p \in Procs, o \in Outcomes : FetchBaseline(p, o)
  \/ \E p \in Procs : SaveHistory(p)
  \/ \E p \in Procs, o \in Outcomes : PutResponse(p, o)
  \/ \E p \in Procs : Backoff(p)
  \/ \E p \in Procs, sameMs \in BOOLEAN : Backup(p, sameMs)

Spec == Init /\ [][Next]_vars

\* The upload path under every configuration, on a Pod without a model and a
\* local disk that can be written.
InitConfig ==
  /\ config \in Configs
  /\ learningRate \in LearningRates
  /\ historyWritable = TRUE
  /\ backupWritable = TRUE
  /\ store = [k \in Keys |-> NotFound]
  /\ writer = [k \in Keys |-> 0]
  /\ pc = [p \in Procs |-> "idle"]
  /\ req = [p \in Procs |-> NoRequest]
  /\ fetched = [p \in Procs |-> "none"]
  /\ baseline = [p \in Procs |-> Null]
  /\ merged = [p \in Procs |-> Null]
  /\ attempt = [p \in Procs |-> 0]
  /\ events = [p \in Procs |-> <<>>]
  /\ history = [p \in Procs |-> <<>>]
  /\ backups = [p \in Procs |-> <<>>]
  /\ resp = [p \in Procs |-> NoResponse]
  /\ mergeIn = NoCall
  /\ mergeOut = NoCall
  /\ mergeHistory = <<>>
  /\ privIn = NoCall
  /\ privOut = NoCall
  /\ ClientStart({NoFile})
  /\ registration = NoRegistration
  /\ acl = NoAcl
  /\ server = ReadyServer

SpecConfig == InitConfig /\ [][Next]_vars

----------------------------------------------------------------------------
(* Uploads for models whose names differ                                   *)

\* The modelName headers contributors send: "m" and "m.".
RequestedNames == {<<"m">>, <<"m", ".">>}

NamedRequests(p) ==
  {[GoodRequest(p) EXCEPT !.modelName = n] : n \in RequestedNames}

InitNames ==
  /\ config = DefaultConfig
  /\ learningRate \in LearningRates
  /\ historyWritable = TRUE
  /\ backupWritable = TRUE
  /\ store = [k \in Keys |-> NotFound]
  /\ writer = [k \in Keys |-> 0]
  /\ pc = [p \in Procs |-> "idle"]
  /\ req = [p \in Procs |-> NoRequest]
  /\ fetched = [p \in Procs |-> "none"]
  /\ baseline = [p \in Procs |-> Null]
  /\ merged = [p \in Procs |-> Null]
  /\ attempt = [p \in Procs |-> 0]
  /\ events = [p \in Procs |-> <<>>]
  /\ history = [p \in Procs |-> <<>>]
  /\ backups = [p \in Procs |-> <<>>]
  /\ resp = [p \in Procs |-> NoResponse]
  /\ mergeIn = NoCall
  /\ mergeOut = NoCall
  /\ mergeHistory = <<>>
  /\ privIn = NoCall
  /\ privOut = NoCall
  /\ ClientStart({NoFile})
  /\ registration = NoRegistration
  /\ acl = NoAcl
  /\ server = ReadyServer

NextNames ==
  \/ \E p \in Procs : \E r \in NamedRequests(p) : Upload(p, r)
  \/ \E p \in Procs, ok \in BOOLEAN : EnsureContainer(p, ok)
  \/ \E p \in Procs, o \in Outcomes : FetchBaseline(p, o)
  \/ \E p \in Procs : SaveHistory(p)
  \/ \E p \in Procs, o \in Outcomes : PutResponse(p, o)
  \/ \E p \in Procs : Backoff(p)
  \/ \E p \in Procs, sameMs \in BOOLEAN : Backup(p, sameMs)

SpecNames == InitNames /\ [][NextNames]_vars

----------------------------------------------------------------------------
(* server.js: initializeServer and the ensureInitialized middleware        *)

\* The module has been loaded up to the call of initializeServer: config.js
\* has validated the Solid settings (it exits the process otherwise), so the
\* test of initializeServer for missing settings does not throw.
ServerLoaded ==
  [initPromise |-> "null", serviceSession |-> "null",
   modelService |-> "null", serverReady |-> FALSE, listening |-> FALSE,
   exited |-> FALSE, inFlight |-> 0, logins |-> 0, services |-> 0,
   requests |-> [r \in Procs |-> NoArrival]]

Routes == {"/health", "/register", "/upload", "/config"}

\* A variant in which every call starts an initialisation of its own.
AttemptSharedNever(s) == FALSE

\* initializeServer: if (initPromise) return initPromise.
AttemptShared(s) == s.initPromise # "null"

\* initializeServer, up to the await of serviceSession.login: the pending
\* promise is handed out, or a Session is created, its login is sent and
\* the promise of this attempt is stored.
initializeServer(s) ==
  IF AttemptShared(s) THEN s
  ELSE [s EXCEPT !.serviceSession = "created",
                 !.inFlight = @ + 1,
                 !.logins = @ + 1,
                 !.initPromise = "pending"]

\* The end of the module: initializeServer().catch(... process.exit(1)) and
\* app.listen.
StartServer ==
  /\ ~server.listening /\ ~server.exited
  /\ server' = [initializeServer(server) EXCEPT !.listening = TRUE]
  /\ UNCHANGED <<service, library, client, registration, acl>>

\* serviceSession.login settles.  Resolved: the ModelService is constructed
\* and serverReady is set.  Rejected: the catch clears initPromise and
\* rethrows, and the handler the module attached first ends the process
\* before the 503 of a held request is sent.
LoginSettles(ok) ==
  /\ ~server.exited
  /\ server.inFlight > 0
  /\ server' =
       IF ok
         THEN [server EXCEPT !.inFlight = @ - 1,
                             !.serviceSession = "loggedIn",
                             !.modelService = "constructed",
                             !.services = @ + 1,
                             !.serverReady = TRUE,
                             !.initPromise = "fulfilled"]
       ELSE [server EXCEPT !.inFlight = @ - 1,
                           !.initPromise = "null",
                           !.exited = TRUE]
  /\ UNCHANGED <<service, library, client, registration, acl>>

\* A variant of the middleware that lets every request through.
GateOpenAlways == TRUE

\* ensureInitialized: if (serverReady) return next().
GateOpen == server.serverReady

\* ensureInitialized for a request that arrives: it goes on to its route
\* handler, or calls initializeServer and waits for the promise.
EnsureInitialized(r, route) ==
  /\ server.listening /\ ~server.exited
  /\ server.requests[r].at = "none"
  /\ server' =
       IF GateOpen
         THEN [server EXCEPT !.requests[r] =
                 [at |-> "handler", route |-> route, waited |-> FALSE]]
       ELSE [initializeServer(server) EXCEPT !.requests[r] =
                 [at |-> "held", route |-> route, waited |-> TRUE]]
  /\ UNCHANGED <<service, library, client, registration, acl>>

\* .then(() => next()): the promise a request waits for is fulfilled.
Proceed(r) ==
  /\ ~server.exited
  /\ server.requests[r].at = "held"
  /\ server.initPromise = "fulfilled"
  /\ server' = [server EXCEPT !.requests[r].at = "handler"]
  /\ UNCHANGED <<service, library, client, registration, acl>>

\* The route handler has answered.
HandlerEnds(r) ==
  /\ ~server.exited
  /\ server.requests[r].at = "handler"
  /\ server' = [server EXCEPT !.requests[r] = NoArrival]
  /\ UNCHANGED <<service, library, client, registration, acl>>

InitServer ==
  /\ config = DefaultConfig
  /\ learningRate = DefaultLearningRate
  /\ historyWritable = TRUE
  /\ backupWritable = TRUE
  /\ store = [k \in Keys |-> NotFound]
  /\ writer = [k \in Keys |-> 0]
  /\ pc = [p \in Procs |-> "idle"]
  /\ req = [p \in Procs |-> NoRequest]
  /\ fetched = [p \in Procs |-> "none"]
  /\ baseline = [p \in Procs |-> Null]
  /\ merged = [p \in Procs |-> Null]
  /\ attempt = [p \in Procs |-> 0]
  /\ events = [p \in Procs |-> <<>>]
  /\ history = [p \in Procs |-> <<>>]
  /\ backups = [p \in Procs |-> <<>>]
  /\ resp = [p \in Procs |-> NoResponse]
  /\ mergeIn = NoCall
  /\ mergeOut = NoCall
  /\ mergeHistory = <<>>
  /\ privIn = NoCall
  /\ privOut = NoCall
  /\ ClientStart({NoFile})
  /\ registration = NoRegistration
  /\ acl = NoAcl
  /\ server = ServerLoaded

NextServer ==
  \/ StartServer
  \/ \E ok \in BOOLEAN : LoginSettles(ok)
  \/ \E r \in Procs, route \in Routes : EnsureInitialized(r, route)
  \/ \E r \in Procs : Proceed(r)
  \/ \E r \in Procs : HandlerEnds(r)

SpecServer == InitServer /\ [][NextServer]_vars

----------------------------------------------------------------------------
(* server.js: POST /register beside POST /upload                           *)

RegistrationKey(r) == getModelFolderUrl(registration[r].modelName)

\* The answers of the Pod to HEAD globalModel.bin: 200 only for a resource
\* that exists, 404 only for one that does not, 503 either way, or the
\* fetch throws.
HeadAnswers == {"200", "404", "503", "throw"}

RegisterAnswer(r, answer) ==
  [registration EXCEPT ![r] = [@ EXCEPT !.pc = "done", !.resp = answer,
                                        !.dsWithAcl = NoRules]]

\* POST /register with webId and modelName: the handler starts, and
\* ensureContainer sends its HEAD.
Register(r, webId, name) ==
  /\ registration[r].pc \in {"idle", "done"}
  /\ registration' = [registration EXCEPT ![r] =
       IF webId = <<>> \/ name = <<>>
         THEN [pc |-> "done", webId |-> webId, modelName |-> name,
               head |-> "none", dsWithAcl |-> NoRules,
               resp |-> Failure(400, "Missing required parameters")]
       ELSE [pc |-> "container", webId |-> webId, modelName |-> name,
             head |-> "none", dsWithAcl |-> NoRules, resp |-> NoResponse]]
  /\ UNCHANGED <<service, library, client, access>>

\* ensureContainer returns true, or false and the handler answers 500.
RegisterEnsureContainer(r, ok) ==
  /\ registration[r].pc = "container"
  /\ registration' =
       IF ok THEN [registration EXCEPT ![r].pc = "head"]
       ELSE RegisterAnswer(r, Failure(500, "Registration failed"))
  /\ UNCHANGED <<service, library, client, access>>

\* ensureModelFiles: if (!modelResponse.ok), with the response of the HEAD
\* that was awaited before.
PlaceholderWanted(r) == registration[r].head \in {"404", "503"}

\* ensureModelFiles: the HEAD of globalModel.bin is answered.  A thrown
\* fetch makes ensureModelFiles return false, which the handler only warns
\* about.
EnsureModelFilesHead(r, answer) ==
  /\ registration[r].pc = "head"
  /\ answer = "200" => IsBytes(store[RegistrationKey(r)])
  /\ answer = "404" => store[RegistrationKey(r)] = NotFound
  /\ registration' = [registration EXCEPT
       ![r].head = answer,
       ![r].pc = IF answer = "throw" THEN "grant" ELSE "files"]
  /\ UNCHANGED <<service, library, client, access>>

\* ensureModelFiles: after the HEAD, the PUT of the empty globalModel.bin
\* when the HEAD was not ok; its response is not looked at.  The HEAD and
\* PUT of clientTrainer.py that follow touch no state of the model.
EnsureModelFilesPut(r, outcome) ==
  /\ registration[r].pc = "files"
  /\ registration' = [registration EXCEPT ![r].pc = "grant"]
  /\ IF PlaceholderWanted(r) /\ outcome = "ok"
       THEN /\ store' = [store EXCEPT ![RegistrationKey(r)] = EmptyBytes]
            /\ writer' = [writer EXCEPT ![RegistrationKey(r)] = 0]
       ELSE UNCHANGED <<store, writer>>
  /\ UNCHANGED <<env, pc, req, fetched, baseline, merged, attempt, events,
                 history, backups, resp, library, client, access>>

\* A variant that also hands out write.
GrantedAccessWithWrite ==
  [read |-> TRUE, append |-> FALSE, write |-> TRUE, control |-> FALSE]

\* The modes handed to setAgentResourceAccess and setAgentDefaultAccess.
GrantedAccess ==
  [read |-> TRUE, append |-> FALSE, write |-> FALSE, control |-> FALSE]

\* grantFolderAccessWithInheritance, first await: getSolidDatasetWithAcl
\* answers with the ACL the container has at that moment, which the handler
\* keeps as its own copy; or the call throws and the handler answers 500.
RegisterGrant(r, ok) ==
  /\ registration[r].pc = "grant"
  /\ registration' =
       IF ok THEN [registration EXCEPT
                     ![r].pc = "save",
                     ![r].dsWithAcl = acl[RegistrationKey(r)]]
       ELSE RegisterAnswer(r, Failure(500, "Registration failed"))
  /\ UNCHANGED <<service, library, client, access>>

\* setAgentResourceAccess and setAgentDefaultAccess on the copy of the ACL
\* that was read: the agent's rules in it are replaced, those of the other
\* agents are as they were read.
grantFolderAccessWithInheritance(r) ==
  [registration[r].dsWithAcl EXCEPT ![registration[r].webId] =
     [resource |-> GrantedAccess, default |-> GrantedAccess]]

\* A variant in which saveAclFor stores the handler's copy as the whole ACL,
\* whatever has been saved there since the copy was read.
SavedAclWholeCopy(r) == grantFolderAccessWithInheritance(r)

\* The ACL of the container after saveAclFor.  The ACL handed to it is the
\* copy that was read (getResourceAcl, or createAcl, both of which give it
\* the ACL's own URL as its source) with the changes of setAgentResourceAccess
\* and setAgentDefaultAccess recorded in it; saveAclFor
\* (@inrupt/solid-client, not part of the repository) sends those changes,
\* which are the rules of the agent of the request and nothing else, and the
\* Pod applies them to the ACL it holds at that moment: what another
\* registration saved in between stays.
SavedAcl(r) ==
  [acl[RegistrationKey(r)] EXCEPT ![registration[r].webId] =
     grantFolderAccessWithInheritance(r)[registration[r].webId]]

\* grantFolderAccessWithInheritance, second await: saveAclFor and the
\* handler answers 200; or the call throws, nothing is saved and the handler
\* answers 500.
RegisterSaveAcl(r, ok) ==
  /\ registration[r].pc = "save"
  /\ registration' = RegisterAnswer(r,
       IF ok THEN Success(RegistrationKey(r))
       ELSE Failure(500, "Registration failed"))
  /\ acl' = IF ok THEN [acl EXCEPT ![RegistrationKey(r)] = SavedAcl(r)]
            ELSE acl
  /\ UNCHANGED <<service, library, client, server>>

InitRegister ==
  /\ config = DefaultConfig
  /\ learningRate \in LearningRates
  /\ historyWritable = TRUE
  /\ backupWritable = TRUE
  /\ store = [k \in Keys |-> NotFound]
  /\ writer = [k \in Keys |-> 0]
  /\ pc = [p \in Procs |-> "idle"]
  /\ req = [p \in Procs |-> NoRequest]
  /\ fetched = [p \in Procs |-> "none"]
  /\ baseline = [p \in Procs |-> Null]
  /\ merged = [p \in Procs |-> Null]
  /\ attempt = [p \in Procs |-> 0]
  /\ events = [p \in Procs |-> <<>>]
  /\ history = [p \in Procs |-> <<>>]
  /\ backups = [p \in Procs |-> <<>>]
  /\ resp = [p \in Procs |-> NoResponse]
  /\ mergeIn = NoCall
  /\ mergeOut = NoCall
  /\ mergeHistory = <<>>
  /\ privIn = NoCall
  /\ privOut = NoCall
  /\ ClientStart({NoFile})
  /\ registration = NoRegistration
  /\ acl = NoAcl
  /\ server = ReadyServer

NextRegister ==
  \/ \E p \in Procs : \E r \in Requests(p) : Upload(p, r)
  \/ \E p \in Procs, ok \in BOOLEAN : EnsureContainer(p, ok)
  \/ \E p \in Procs, o \in Outcomes : FetchBaseline(p, o)
  \/ \E p \in Procs : SaveHistory(p)
  \/ \E p \in Procs, o \in Outcomes : PutResponse(p, o)
  \/ \E p \in Procs : Backoff(p)
  \/ \E p \in Procs, sameMs \in BOOLEAN : Backup(p, sameMs)
  \/ \E n \in ModelNames : Register(1, <<"alice">>, n)
  \/ \E r \in Registrations, ok \in BOOLEAN : RegisterEnsureContainer(r, ok)
  \/ \E r \in Registrations, a \in HeadAnswers : EnsureModelFilesHead(r, a)
  \/ \E r \in Registrations, o \in Outcomes : EnsureModelFilesPut(r, o)
  \/ \E r \in Registrations, ok \in BOOLEAN : RegisterGrant(r, ok)
  \/ \E r \in Registrations, ok \in BOOLEAN : RegisterSaveAcl(r, ok)

SpecRegister == InitRegister /\ [][NextRegister]_vars

\* Access an agent was given by hand before any registration.
FullAccess ==
  [read |-> TRUE, append |-> TRUE, write |-> TRUE, control |-> TRUE]

\* The ACLs before the first registration: no agent rules, or full access
\* for alice on every model container.
InitialAcls ==
  {NoAcl,
   [k \in Keys |-> [a \in Agents |->
      IF a = <<"alice">>
        THEN [resource |-> FullAccess, default |-> FullAccess]
      ELSE [resource |-> NoAccess, default |-> NoAccess]]]}

\* Registrations alone: any agent, for any model, one after the other or
\* at the same time.
InitAccess ==
  /\ config = DefaultConfig
  /\ learningRate = DefaultLearningRate
  /\ historyWritable = TRUE
  /\ backupWritable = TRUE
  /\ store \in [Keys -> {NotFound, EmptyBytes, Bytes(V(2, 2), 0)}]
  /\ writer = [k \in Keys |-> 0]
  /\ pc = [p \in Procs |-> "idle"]
  /\ req = [p \in Procs |-> NoRequest]
  /\ fetched = [p \in Procs |-> "none"]
  /\ baseline = [p \in Procs |-> Null]
  /\ merged = [p \in Procs |-> Null]
  /\ attempt = [p \in Procs |-> 0]
  /\ events = [p \in Procs |-> <<>>]
  /\ history = [p \in Procs |-> <<>>]
  /\ backups = [p \in Procs |-> <<>>]
  /\ resp = [p \in Procs |-> NoResponse]
  /\ mergeIn = NoCall
  /\ mergeOut = NoCall
  /\ mergeHistory = <<>>
  /\ privIn = NoCall
  /\ privOut = NoCall
  /\ ClientStart({NoFile})
  /\ registration = NoRegistration
  /\ acl \in InitialAcls
  /\ server = ReadyServer

NextAccess ==
  \/ \E r \in Registrations :
       \E w \in Agents \cup {<<>>}, n \in ModelNames \cup {<<>>} :
         Register(r, w, n)
  \/ \E r \in Registrations, ok \in BOOLEAN : RegisterEnsureContainer(r, ok)
  \/ \E r \in Registrations, a \in HeadAnswers : EnsureModelFilesHead(r, a)
  \/ \E r \in Registrations, o \in Outcomes : EnsureModelFilesPut(r, o)
  \/ \E r \in Registrations, ok \in BOOLEAN : RegisterGrant(r, ok)
  \/ \E r \in Registrations, ok \in BOOLEAN : RegisterSaveAcl(r, ok)

SpecAccess == InitAccess /\ [][NextAccess]_vars

----------------------------------------------------------------------------
(* federatedAverage called on its own                                      *)

\* The vectors a call may be given: two floats (three of them), one float,
\* five bytes, no bytes.
MergeVectors ==
  {Bytes(V(2, 0), 0), Bytes(V(0, 2), 0), Bytes(V(2, 2), 0),
   Bytes(<<<<4, 1>>>>, 0), Bytes(<<<<2, 1>>>>, 1), EmptyBytes}

MergeBaselines ==
  {Null, Bytes(V(0, 0), 0), Bytes(V(4, 0), 0), Bytes(V(2, 2), 0),
   Bytes(<<<<0, 1>>>>, 0), Bytes(<<<<0, 1>>>>, 2), EmptyBytes}

MergeRates == {<<0, 1>>, <<1, 10>>, <<1, 2>>, <<1, 1>>}

\* The updates a call may be given: every vector with the round "1", and
\* one update whose round is the empty string.
MergeUpdates ==
  {Update(<<"contributor", 1>>, v, "1") : v \in MergeVectors}
    \cup {Update(<<"contributor", 1>>, Bytes(V(2, 2), 0), "")}

UpdateLists == UNION {[1..n -> MergeUpdates] : n \in 0..MaxUpdates}

InitMerge ==
  /\ config = DefaultConfig
  /\ learningRate = DefaultLearningRate
  /\ historyWritable \in BOOLEAN
  /\ backupWritable = TRUE
  /\ store = [k \in Keys |-> NotFound]
  /\ writer = [k \in Keys |-> 0]
  /\ pc = [p \in Procs |-> "idle"]
  /\ req = [p \in Procs |-> NoRequest]
  /\ fetched = [p \in Procs |-> "none"]
  /\ baseline = [p \in Procs |-> Null]
  /\ merged = [p \in Procs |-> Null]
  /\ attempt = [p \in Procs |-> 0]
  /\ events = [p \in Procs |-> <<>>]
  /\ history = [p \in Procs |-> <<>>]
  /\ backups = [p \in Procs |-> <<>>]
  /\ resp = [p \in Procs |-> NoResponse]
  /\ mergeIn \in [updates : UpdateLists, currentGlobalModel : MergeBaselines,
                  learningRate : MergeRates, isAsyncUpdate : BOOLEAN,
                  saveHistory : BOOLEAN]
  /\ mergeOut = NoCall
  /\ mergeHistory = <<>>
  /\ privIn = NoCall
  /\ privOut = NoCall
  /\ ClientStart({NoFile})
  /\ registration = NoRegistration
  /\ acl = NoAcl
  /\ server = ReadyServer

CallFederatedAverage ==
  /\ mergeOut = NoCall
  /\ mergeOut' = federatedAverage(mergeIn.updates, mergeIn.currentGlobalModel,
                                  mergeIn.learningRate, mergeIn.isAsyncUpdate)
  /\ UNCHANGED <<env, store, writer, pc, req, fetched, baseline, merged,
                 attempt, events, history, backups, resp, mergeIn,
                 mergeHistory, privIn, privOut, client, registration, access>>

\* aggregateModels: federatedAverage, then saveAggregationHistory when
\* config.saveHistory is set; an error of federatedAverage is rethrown before
\* any record is written, an error of the history write is only logged.
CallAggregateModels ==
  /\ mergeOut = NoCall
  /\ LET r == federatedAverage(mergeIn.updates, mergeIn.currentGlobalModel,
                               mergeIn.learningRate, mergeIn.isAsyncUpdate)
     IN /\ mergeOut' = r
        /\ mergeHistory' =
             IF r.ok /\ mergeIn.saveHistory /\ historyWritable
               THEN <<HistoryRecord(mergeIn.updates, <<"m">>,
                                    mergeIn.currentGlobalModel)>>
             ELSE <<>>
  /\ UNCHANGED <<env, store, writer, pc, req, fetched, baseline, merged,
                 attempt, events, history, backups, resp, mergeIn,
                 privIn, privOut, client, registration, access>>

NextMerge ==
  \/ CallFederatedAverage
  \/ CallAggregateModels

SpecMerge == InitMerge /\ [][NextMerge]_vars

----------------------------------------------------------------------------
(* privacy.js                                                              *)
(*                                                                         *)
(* Parameters are JavaScript numbers, weights are float32 values; both are *)
(* exact fractions here.  The norm, the quotient and the products of       *)
(* clipWeights are doubles (DSqrt, DDiv, DMul), and a value stored into a  *)
(* Float32Array is rounded to the nearest float32 (Float32Of).             *)

RLess(x, y) ==
  /\ ~IsNaN(x) /\ ~IsNaN(y)
  /\ LET g == GCD(x[2], y[2])
     IN x[1] * (y[2] \div g) < y[1] * (x[2] \div g)

\* bufferToFloat32Array of privacy.js: a Float32Array over a copy of the
\* Buffer's bytes; the constructor throws a RangeError when the byte length
\* is not a multiple of 4.
privacy_bufferToFloat32Array(buffer) == buffer.w

\* buffer instanceof Buffer, for the class of the weightsBuffer a call is
\* given: a Node Buffer unless the call says ArrayBuffer.
InstanceOfBuffer(call) ==
  ~("bufferClass" \in DOMAIN call /\ call.bufferClass = "ArrayBuffer")

\* bufferToFloat32Array: whether the Float32Array it returns is a view of
\* the caller's memory.  buffer.buffer.slice copies the bytes of a Buffer;
\* new Float32Array(buffer) views the ArrayBuffer it is given.
ViewsInput(call) == ~InstanceOfBuffer(call)

\* sumSquares += vector[i] * vector[i], over the first k elements, in
\* doubles.
RECURSIVE SumSquares(_, _)
SumSquares(vector, k) ==
  IF k = 0 THEN DZero
  ELSE DAdd(SumSquares(vector, k - 1),
            DMul(ToDouble(vector[k]), ToDouble(vector[k])))

\* Math.sqrt(sumSquares), a double.
computeL2Norm(vector) == DSqrt(SumSquares(vector, Len(vector)))

\* A variant that scales whatever the norm is.
NeedsClippingAlways(l2Norm, clipThreshold) == TRUE

\* if (l2Norm > clipThreshold)
NeedsClipping(l2Norm, clipThreshold) ==
  DLess(ToDouble(clipThreshold), l2Norm)

\* A variant with the quotient upside down.
ScaleFactorInverted(clipThreshold, l2Norm) ==
  DDiv(l2Norm, ToDouble(clipThreshold))

\* const scaleFactor = clipThreshold / l2Norm, a double.
ScaleFactor(clipThreshold, l2Norm) ==
  DDiv(ToDouble(clipThreshold), l2Norm)

\* clipWeights.  weights[i] *= scaleFactor multiplies in doubles and stores
\* the float32 nearest to the product.  With a norm of 0
\* the branch is taken only for a negative threshold: the factor is
\* -Infinity and 0 * -Infinity is NaN.
clipWeights(weightsBuffer, clipThreshold) ==
  IF ~Decodable(weightsBuffer) THEN Thrown("RangeError")
  ELSE
    LET weights == privacy_bufferToFloat32Array(weightsBuffer)
    IN Once(computeL2Norm(weights), LAMBDA l2Norm :
         IF NeedsClipping(l2Norm, clipThreshold)
           THEN Once(ScaleFactor(clipThreshold, l2Norm), LAMBDA scaleFactor :
                  Returned(Bytes(
                    [i \in 1..Len(weights) |->
                       IF l2Norm = DZero THEN NaN
                       ELSE Float32Of(DMul(ToDouble(weights[i]),
                                           scaleFactor))],
                    0)))
         ELSE Returned(Bytes(weights, 0)))

\* The caller's weightsBuffer after clipWeights has returned: the loop
\* weights[i] *= scaleFactor writes through a view.
InputAfterClipWeights(call, weightsBuffer, clipThreshold) ==
  LET r == clipWeights(weightsBuffer, clipThreshold)
  IN IF r.ok /\ ViewsInput(call)
       THEN [weightsBuffer EXCEPT !.w = r.data.w]
     ELSE weightsBuffer

calculateSensitivity(l2NormClip) == l2NormClip

\* options.x || default: 0 and NaN (and a missing option) give the default.
OrDefault(x, default) == IF IsNaN(x) \/ x[1] = 0 THEN default ELSE x

DefaultEpsilon == <<1, 1>>
DefaultDelta == <<1, 100000>>
DefaultL2NormClip == <<1, 1>>

\* calculateNoiseScale: stdDev = sqrt(2 * ln(1.25 / delta)) * sensitivity /
\* epsilon, by its sign.  The logarithm is that of a negative number for
\* delta < 0 and is itself negative for delta > 1.25: the result is NaN.
\* (epsilon, delta and sensitivity are never 0 here: OrDefault replaced it.)
calculateNoiseScale(epsilon, delta, sensitivity) ==
  IF RLess(delta, Zero) \/ RLess(<<5, 4>>, delta) THEN "NaN"
  ELSE IF delta = <<5, 4>> THEN "zero"
  ELSE IF RLess(Zero, sensitivity) = RLess(Zero, epsilon) THEN "positive"
  ELSE "negative"

\* A Box-Muller sample: radius * cos(theta) or radius * sin(theta), with the
\* radius from the uniform draw numbered u1 and theta from the draw numbered
\* u2 (the draws of a call are numbered in the order they are made).
Sample(fn, u1, u2) == [fn |-> fn, u1 |-> u1, u2 |-> u2]

\* A variant that writes the second sample of every pair.
SecondSampleKeptAlways(i, size) == TRUE

\* if (i + 1 < size), for the 1-based index i of the first sample of the pair.
SecondSampleKept(i, size) == i + 1 <= size

\* generateGaussianNoise: the loop from the (1-based, odd) index i on.  Each
\* turn makes two draws and writes noise[i], and noise[i + 1] when it exists.
RECURSIVE NoiseFrom(_, _)
NoiseFrom(i, size) ==
  IF i > size THEN <<>>
  ELSE <<Sample("cos", i, i + 1)>>
         \o (IF SecondSampleKept(i, size)
               THEN <<Sample("sin", i, i + 1)>> ELSE <<>>)
         \o NoiseFrom(i + 2, size)

RECURSIVE DrawsFrom(_, _)
DrawsFrom(i, size) == IF i > size THEN 0 ELSE 2 + DrawsFrom(i + 2, size)

\* The samples are scaled by stdDev; the scale is kept apart (noiseScale).
generateGaussianNoise(size) ==
  [noise |-> NoiseFrom(1, size), draws |-> DrawsFrom(1, size)]

\* crypto.randomBytes(4): four bytes.
ZeroWord == <<0, 0, 0, 0>>
LowWord == <<1, 0, 0, 0>>
HalfWord == <<0, 0, 0, 128>>
FullWord == <<255, 255, 255, 255>>

\* What the random source returns during one call, draw by draw.
InsideSource == <<HalfWord, LowWord, HalfWord, HalfWord>>

RandomSources ==
  {InsideSource,
   <<ZeroWord, HalfWord, HalfWord, HalfWord>>,
   <<HalfWord, ZeroWord, LowWord, ZeroWord>>,
   <<FullWord, FullWord, ZeroWord, HalfWord>>}

\* The bytes the random source returns during a call made with these
\* arguments.
RandomBytesOf(options) ==
  IF "randomBytes" \in DOMAIN options THEN options.randomBytes
  ELSE InsideSource

\* readUInt32LE(0), as its low and high 16 bits.
readUInt32LE(b) == [lo |-> b[1] + 256 * b[2], hi |-> b[3] + 256 * b[4]]

\* readUInt32LE(0) / 0xFFFFFFFF: 0 for the word 0, 1 for the word
\* 0xFFFFFFFF, a number strictly between for every other word.
Uniform(b) ==
  LET word == readUInt32LE(b)
  IN IF word.lo = 0 /\ word.hi = 0 THEN "zero"
     ELSE IF word.lo = 65535 /\ word.hi = 65535 THEN "one"
     ELSE "inside"

\* Math.sqrt(-2 * Math.log(u1)): log(0) is -Infinity, log(1) is 0.
Radius(u1) ==
  CASE u1 = "zero" -> "Infinity"
    [] u1 = "one" -> "zero"
    [] OTHER -> "positive"

\* Whether Math.cos / Math.sin of theta = 2 * Math.PI * u2 is 0: only the
\* sine of theta = 0 is.
TrigIsZero(fn, u2) == fn = "sin" /\ u2 = "zero"

\* radius * Math.cos(theta) * stdDev (or sin), for the sign class of stdDev:
\* finite, an infinity or NaN.  Infinity * 0 is NaN.
SampleValue(s, stdDev, source) ==
  LET radius == Radius(Uniform(source[s.u1]))
      trigZero == TrigIsZero(s.fn, Uniform(source[s.u2]))
  IN IF stdDev = "NaN" THEN "NaN"
     ELSE IF radius # "Infinity" THEN "finite"
     ELSE IF trigZero \/ stdDev = "zero" THEN "NaN"
     ELSE "Infinity"

\* The values generateGaussianNoise(size, stdDev) returns for the bytes of
\* the random source.
NoiseValues(size, stdDev, source) ==
  [i \in 1..Len(generateGaussianNoise(size).noise) |->
     SampleValue(generateGaussianNoise(size).noise[i], stdDev, source)]

\* addGaussianNoise: noisyWeights[i] = weights[i] + noise[i], over the
\* length of weights.
addGaussianNoise(weights) ==
  LET g == generateGaussianNoise(Len(weights))
  IN [noisy |-> [i \in 1..Len(weights) |->
                   [base |-> weights[i],
                    sample |-> IF i <= Len(g.noise) THEN g.noise[i]
                               ELSE [fn |-> "undefined"]]],
      written |-> Len(g.noise),
      draws |-> g.draws]

\* applyDifferentialPrivacy.  The returned buffer holds clipped[i] +
\* z[i] * stdDev for standard normal samples z[i]; the model keeps the
\* clipped weights, the sample added to each, the number of samples and of
\* uniform draws made, the parameters the noise was scaled with and the sign
\* of stdDev.
applyDifferentialPrivacy(weightsBuffer, options) ==
  LET epsilon == OrDefault(options.epsilon, DefaultEpsilon)
      delta == OrDefault(options.delta, DefaultDelta)
      l2NormClip == OrDefault(options.l2NormClip, DefaultL2NormClip)
      sensitivity == calculateSensitivity(l2NormClip)
      noiseScale == calculateNoiseScale(epsilon, delta, sensitivity)
  IN Once(clipWeights(weightsBuffer, l2NormClip), LAMBDA clippedWeights :
     IF ~clippedWeights.ok THEN clippedWeights
     ELSE [ok |-> TRUE,
           data |-> [kind |-> "privatized",
                     clipped |-> clippedWeights.data.w,
                     noisy |-> addGaussianNoise(clippedWeights.data.w).noisy,
                     samples |-> addGaussianNoise(clippedWeights.data.w).written,
                     draws |-> addGaussianNoise(clippedWeights.data.w).draws,
                     noise |-> NoiseValues(Len(clippedWeights.data.w),
                                           noiseScale,
                                           RandomBytesOf(options)),
                     uniforms |-> [k \in 1..addGaussianNoise(
                                      clippedWeights.data.w).draws |->
                                    Uniform(RandomBytesOf(options)[k])],
                     epsilon |-> epsilon,
                     delta |-> delta,
                     sensitivity |-> sensitivity,
                     noiseScale |-> noiseScale]])

\* The caller's weightsBuffer after applyDifferentialPrivacy has returned:
\* clipWeights is the only step that writes to what it was given;
\* addGaussianNoise fills a new array.
InputAfterApplyDifferentialPrivacy(weightsBuffer, options) ==
  InputAfterClipWeights(options, weightsBuffer,
                        OrDefault(options.l2NormClip, DefaultL2NormClip))

\* A variant whose amplification shrinks as the iterations grow.
CostRadicandShrinking(iterations, sampleRate) ==
  RDivInt(sampleRate, iterations + 1)

\* ... * iterations * sampleRate, the factor of Math.log(1/delta) under the
\* square root.
CostRadicand(iterations, sampleRate) == RMul(<<iterations, 1>>, sampleRate)

\* computePrivacyCost.  The returned epsilon is
\* epsilon * sqrt(ln(1/delta) * iterations * sampleRate), a real number the
\* model keeps by its parts: the coefficient, the rational factor under the
\* root and the delta of the logarithm.  It is NaN when the product under the
\* root is negative (delta > 1), when the logarithm is that of a negative
\* number (delta < 0), and when it is infinite (delta = 0) and multiplied by
\* 0: under the root by iterations * sampleRate, or as the infinite root by
\* an epsilon of 0.  (With delta = 0 and a negative product the root is that
\* of -Infinity.)
computePrivacyCost(epsilon, delta, iterations, sampleRate) ==
  LET radicand == CostRadicand(iterations, sampleRate)
      nan == \/ IsNaN(epsilon) \/ IsNaN(delta) \/ IsNaN(radicand)
             \/ RLess(delta, Zero)
             \/ delta = Zero /\ ~RLess(Zero, radicand)
             \/ delta = Zero /\ epsilon = Zero
             \/ RLess(One, delta) /\ RLess(Zero, radicand)
             \/ RLess(Zero, delta) /\ RLess(delta, One)
                  /\ RLess(radicand, Zero)
  IN [epsilon |-> IF nan THEN [kind |-> "NaN"]
                  ELSE [kind |-> "root", coefficient |-> epsilon,
                        radicand |-> radicand, logOfInverse |-> delta],
      delta |-> delta]

\* The buffers a call is given: vectors with the norms 5, 10, 2, 0 and 13,
\* one of three floats, one of one float, five bytes, no bytes.
PrivacyVectors ==
  {Bytes(V(3, 4), 0), Bytes(V(6, 8), 0), Bytes(V(0, 2), 0),
   Bytes(V(0, 0), 0), Bytes(V(5, 12), 0),
   Bytes(<<<<-3, 1>>, <<4, 1>>, <<0, 1>>>>, 0),
   Bytes(<<<<2, 1>>>>, 0), Bytes(<<<<2, 1>>>>, 1), EmptyBytes}

ClipThresholds == {<<1, 1>>, <<5, 1>>, <<1, 2>>, <<0, 1>>, <<-1, 1>>}

Epsilons == {<<1, 1>>, <<1, 2>>, <<0, 1>>, <<-1, 1>>}

Deltas == {<<1, 100000>>, <<0, 1>>, <<1, 1>>, <<2, 1>>, <<-1, 100>>}

SampleRates == {<<1, 100>>, <<1, 1>>}

\* The arguments of the calls: those of the clipping and noise functions,
\* and those of two cost estimates that differ in the iterations only.
PrivacyInputs ==
  [weightsBuffer : PrivacyVectors, epsilon : Epsilons, delta : Deltas,
   l2NormClip : ClipThresholds, iterations : {<<0, 0>>},
   sampleRate : {<<1, 100>>}]
  \cup
  [weightsBuffer : {EmptyBytes}, epsilon : Epsilons, delta : Deltas,
   l2NormClip : {One}, iterations : (0..MaxIterations) \X (0..MaxIterations),
   sampleRate : SampleRates]
  \cup
  [weightsBuffer : {Bytes(<<<<2, 1>>>>, 0), Bytes(V(3, 4), 0),
                    Bytes(<<<<-3, 1>>, <<4, 1>>, <<0, 1>>>>, 0)},
   epsilon : {One}, delta : {<<1, 100000>>, <<5, 4>>},
   l2NormClip : {<<5, 1>>}, iterations : {<<0, 0>>},
   sampleRate : {<<1, 100>>}, randomBytes : RandomSources]
  \cup
  [weightsBuffer : {Bytes(V(3, 4), 0), Bytes(V(6, 8), 0), Bytes(V(0, 2), 0),
                    Bytes(V(3, 4), 1)},
   epsilon : {One}, delta : {<<1, 100000>>},
   l2NormClip : {<<5, 1>>, <<1, 1>>}, iterations : {<<0, 0>>},
   sampleRate : {<<1, 100>>}, bufferClass : {"ArrayBuffer"}]

InitPrivacy ==
  /\ config = DefaultConfig
  /\ learningRate = DefaultLearningRate
  /\ historyWritable = TRUE
  /\ backupWritable = TRUE
  /\ store = [k \in Keys |-> NotFound]
  /\ writer = [k \in Keys |-> 0]
  /\ pc = [p \in Procs |-> "idle"]
  /\ req = [p \in Procs |-> NoRequest]
  /\ fetched = [p \in Procs |-> "none"]
  /\ baseline = [p \in Procs |-> Null]
  /\ merged = [p \in Procs |-> Null]
  /\ attempt = [p \in Procs |-> 0]
  /\ events = [p \in Procs |-> <<>>]
  /\ history = [p \in Procs |-> <<>>]
  /\ backups = [p \in Procs |-> <<>>]
  /\ resp = [p \in Procs |-> NoResponse]
  /\ mergeIn = NoCall
  /\ mergeOut = NoCall
  /\ mergeHistory = <<>>
  /\ privIn \in PrivacyInputs
  /\ privOut = NoCall
  /\ ClientStart({NoFile})
  /\ registration = NoRegistration
  /\ acl = NoAcl
  /\ server = ReadyServer

\* clipWeights(weightsBuffer, l2NormClip) called on its own.
CallClipWeights ==
  /\ privOut = NoCall
  /\ privOut' = [fn |-> "clipWeights",
                 result |-> clipWeights(privIn.weightsBuffer,
                                        privIn.l2NormClip),
                 argument |-> InputAfterClipWeights(privIn,
                                                    privIn.weightsBuffer,
                                                    privIn.l2NormClip)]
  /\ UNCHANGED <<env, store, writer, pc, req, fetched, baseline, merged,
                 attempt, events, history, backups, resp, mergeIn, mergeOut,
                 mergeHistory, privIn, client, registration, access>>

CallApplyDifferentialPrivacy ==
  /\ privOut = NoCall
  /\ privOut' = [fn |-> "applyDifferentialPrivacy",
                 result |-> applyDifferentialPrivacy(privIn.weightsBuffer,
                                                     privIn),
                 argument |-> InputAfterApplyDifferentialPrivacy(
                                privIn.weightsBuffer, privIn)]
  /\ UNCHANGED <<env, store, writer, pc, req, fetched, baseline, merged,
                 attempt, events, history, backups, resp, mergeIn, mergeOut,
                 mergeHistory, privIn, client, registration, access>>

\* computePrivacyCost called for each of the two iteration counts.
CallComputePrivacyCost ==
  /\ privOut = NoCall
  /\ privOut' = [fn |-> "computePrivacyCost",
                 result |-> [k \in 1..2 |->
                   computePrivacyCost(privIn.epsilon, privIn.delta,
                                      privIn.iterations[k],
                                      privIn.sampleRate)]]
  /\ UNCHANGED <<env, store, writer, pc, req, fetched, baseline, merged,
                 attempt, events, history, backups, resp, mergeIn, mergeOut,
                 mergeHistory, privIn, client, registration, access>>

NextPrivacy ==
  \/ CallClipWeights
  \/ CallApplyDifferentialPrivacy
  \/ CallComputePrivacyCost

SpecPrivacy == InitPrivacy /\ [][NextPrivacy]_vars

----------------------------------------------------------------------------
(* cli.js: trainWithDP, trainAndUpload and runTrainingWithOptions, and     *)
(* upload.js: uploadDPWeights and uploadWeights                            *)

\* The weights a training run leaves in localWeights.bin: two vectors, five
\* bytes, no bytes.
TrainedWeights ==
  {Bytes(V(3, 4), 0), Bytes(V(0, 2), 0), Bytes(<<<<2, 1>>>>, 1), EmptyBytes}

\* What is left on disk of a write that failed part way.
PartialFile == Bytes(<<>>, 3)

\* The privacy parameters after the prompts: the defaults, and values the
\* prompts do not refuse.
DpParamChoices ==
  {[epsilon |-> One, delta |-> DefaultDelta, l2NormClip |-> One],
   [epsilon |-> <<-1, 1>>, delta |-> <<2, 1>>, l2NormClip |-> <<1, 2>>]}

\* parseInt(roundStr, 10) of the answers "0", "1" and "2".
Rounds == 0..2

\* The run is over: the function called returns.
EndRun ==
  /\ cpc' = "idle"
  /\ runs' = runs + 1

\* execSync('python clientTrainer.py') and fs.access('./localWeights.bin'):
\* the trainer writes the file, or fails and the run ends in the catch.
ClientTrain(ok, w) ==
  /\ cpc = "idle" /\ runs < MaxRuns
  /\ IF ok
       THEN /\ files' = [files EXCEPT !.local = w]
            /\ cpc' = "configure"
            /\ UNCHANGED runs
       ELSE /\ EndRun
            /\ UNCHANGED files
  /\ dpWeightsBuffer' = Null
  /\ dpParams' = NoParams
  /\ UNCHANGED sent
  /\ UNCHANGED <<service, library, registration, access>>

\* The round and the privacy parameters are asked for; a round below 1
\* throws.
ClientConfigure(round, params) ==
  /\ cpc = "configure"
  /\ IF round < 1
       THEN /\ EndRun
            /\ UNCHANGED dpParams
       ELSE /\ dpParams' = params
            /\ cpc' = "privatize"
            /\ UNCHANGED runs
  /\ UNCHANGED <<files, dpWeightsBuffer, sent>>
  /\ UNCHANGED <<service, library, registration, access>>

\* fs.readFile('./localWeights.bin') and applyDifferentialPrivacy: a failed
\* read or a throw of applyDifferentialPrivacy ends the run.
ClientApplyPrivacy(readOk) ==
  /\ cpc = "privatize"
  /\ LET r == applyDifferentialPrivacy(files.local, dpParams)
     IN IF readOk /\ r.ok
          THEN /\ dpWeightsBuffer' = r.data
               /\ cpc' = "write"
               /\ UNCHANGED runs
          ELSE /\ EndRun
               /\ UNCHANGED dpWeightsBuffer
  /\ UNCHANGED <<files, dpParams, sent>>
  /\ UNCHANGED <<service, library, registration, access>>

\* fs.writeFile('./dp_weights.bin', dpWeightsBuffer): written, or the write
\* fails (leaving the file as it was, or cut short) and the run ends.
ClientWriteFile(outcome) ==
  /\ cpc = "write"
  /\ IF outcome = "ok"
       THEN /\ files' = [files EXCEPT !.dp = dpWeightsBuffer]
            /\ cpc' = "upload"
            /\ UNCHANGED runs
       ELSE /\ files' = [files EXCEPT !.dp =
                           IF outcome = "partial" THEN PartialFile ELSE @]
            /\ EndRun
  /\ UNCHANGED <<dpWeightsBuffer, dpParams, sent>>
  /\ UNCHANGED <<service, library, registration, access>>

\* A variant that uploads the trainer's file.
UploadedFileRaw == "local"

\* uploadDPWeights reads './dp_weights.bin'.
UploadedFile == "dp"

\* uploadDPWeights, called by trainWithDP with the parameters of the run, or
\* on its own with any parameters: fs.access and fs.readFile of the file,
\* then the POST to /upload with its content as the body, marked
\* 'privacy-applied': 'true'.  The function checks the model name and that
\* the file can be read, and nothing about what the file holds.  A failed
\* read sends nothing; whatever the orchestrator answers, trainWithDP goes on
\* to the cleanup.
ClientUpload(readOk, params) ==
  /\ \/ cpc = "upload" /\ params = dpParams
     \/ cpc = "idle" /\ runs < MaxRuns
  /\ sent' = IF readOk /\ files[UploadedFile] # NoFile
               THEN Append(sent, [via |-> "uploadDPWeights",
                                  caller |-> IF cpc = "upload"
                                               THEN "trainWithDP"
                                             ELSE "none",
                                  body |-> files[UploadedFile],
                                  privacyApplied |-> "true",
                                  epsilon |-> params.epsilon,
                                  delta |-> params.delta,
                                  l2NormClip |-> params.l2NormClip])
             ELSE sent
  /\ IF cpc = "upload"
       THEN /\ cpc' = "cleanup"
            /\ UNCHANGED runs
       ELSE EndRun
  /\ UNCHANGED <<files, dpWeightsBuffer, dpParams>>
  /\ UNCHANGED <<service, library, registration, access>>

\* fs.unlink('./dp_weights.bin').catch(() => {}): removed, or left behind.
ClientCleanup(ok) ==
  /\ cpc = "cleanup"
  /\ files' = [files EXCEPT !.dp = IF ok THEN NoFile ELSE @]
  /\ EndRun
  /\ UNCHANGED <<dpWeightsBuffer, dpParams, sent>>
  /\ UNCHANGED <<service, library, registration, access>>

ClientOutcomes == {"ok", "failed", "partial"}

\* trainAndUpload, of the training module (menu = FALSE) and of the menu
\* (menu = TRUE): execSync('python clientTrainer.py') and
\* fs.access('./localWeights.bin'); the trainer writes the file, or fails
\* and the run ends in the catch.  Then the round is asked for.
ClientTrainAndUpload(ok, w, menu) ==
  /\ cpc = "idle" /\ runs < MaxRuns
  /\ IF ok
       THEN /\ files' = [files EXCEPT !.local = w]
            /\ cpc' = IF menu THEN "menuRound" ELSE "round"
            /\ UNCHANGED runs
       ELSE /\ EndRun
            /\ UNCHANGED files
  /\ UNCHANGED <<dpWeightsBuffer, dpParams, sent>>
  /\ UNCHANGED <<service, library, registration, access>>

\* trainAndUpload: the round is answered; a round below 1 throws.  The
\* training module's function then calls uploadWeights, the menu's reads
\* the file for its own POST.
ClientAskRound(round) ==
  /\ cpc \in {"round", "menuRound"}
  /\ IF round < 1
       THEN EndRun
       ELSE /\ cpc' = IF cpc = "round" THEN "uploadWeights" ELSE "menuUpload"
            /\ UNCHANGED runs
  /\ UNCHANGED <<files, dpWeightsBuffer, dpParams, sent>>
  /\ UNCHANGED <<service, library, registration, access>>

\* uploadWeights, called by trainAndUpload or runTrainingWithOptions, or on
\* its own: fs.access and fs.readFile of './localWeights.bin', then the POST
\* to /upload with the file's content as the body, 'privacy-applied': 'false'
\* and no other privacy header.  A missing file or a failed read sends
\* nothing; the function returns whatever the orchestrator answers.
ClientUploadWeights(readOk) ==
  /\ cpc = "uploadWeights" \/ (cpc = "idle" /\ runs < MaxRuns)
  /\ sent' = IF readOk /\ files.local # NoFile
               THEN Append(sent, [via |-> "uploadWeights",
                                  body |-> files.local,
                                  privacyApplied |-> "false"])
             ELSE sent
  /\ EndRun
  /\ UNCHANGED <<files, dpWeightsBuffer, dpParams>>
  /\ UNCHANGED <<service, library, registration, access>>

\* The older uploadWeights(session, filePath, round, modelName), called on
\* its own: fs.readFile of the path it is given, then the POST to /upload
\* with the file's content as the body and no privacy header.  A failed read
\* throws and sends nothing; a refusal of the orchestrator throws after the
\* request was sent.
ClientUploadPath(filePath, readOk) ==
  /\ cpc = "idle" /\ runs < MaxRuns
  /\ sent' = IF readOk /\ files[filePath] # NoFile
               THEN Append(sent, [via |-> "uploadWeights",
                                  body |-> files[filePath]])
             ELSE sent
  /\ EndRun
  /\ UNCHANGED <<files, dpWeightsBuffer, dpParams>>
  /\ UNCHANGED <<service, library, registration, access>>

\* The menu's trainAndUpload: fs.readFile('./localWeights.bin') and its own
\* POST to /upload, with the file's content as the body and no privacy
\* header at all.  A failed read throws into the catch.
ClientMenuUpload(readOk) ==
  /\ cpc = "menuUpload"
  /\ sent' = IF readOk /\ files.local # NoFile
               THEN Append(sent, [via |-> "trainAndUpload",
                                  body |-> files.local])
             ELSE sent
  /\ EndRun
  /\ UNCHANGED <<files, dpWeightsBuffer, dpParams>>
  /\ UNCHANGED <<service, library, registration, access>>

\* What the options of runTrainingWithOptions ask for after the training:
\* nothing (skipUpload), trainWithDP (useDP), or uploadWeights with
\* options.round, which may be missing.
TrainingModes == {"skipUpload", "useDP", "upload", "uploadNoRound"}

\* runTrainingWithOptions up to its first await.  execSync runs the
\* trainer, which writes localWeights.bin or fails (the run ends in the
\* catch).  With skipUpload the function returns.  With useDP it calls
\* trainWithDP, which runs the trainer once more (ClientTrain) and goes on
\* to its prompts.  Otherwise it calls uploadWeights with options.round:
\* without a round, round.toString() throws after the reads and nothing is
\* sent.
ClientRunTrainingWithOptions(ok, w, mode, okDP, wDP) ==
  /\ cpc = "idle" /\ runs < MaxRuns
  /\ IF ~ok
       THEN /\ EndRun
            /\ UNCHANGED <<files, dpWeightsBuffer, dpParams>>
     ELSE IF mode = "useDP"
       THEN /\ files' = [files EXCEPT !.local = IF okDP THEN wDP ELSE w]
            /\ dpWeightsBuffer' = Null
            /\ dpParams' = NoParams
            /\ IF okDP
                 THEN /\ cpc' = "configure"
                      /\ UNCHANGED runs
                 ELSE EndRun
     ELSE /\ files' = [files EXCEPT !.local = w]
          /\ UNCHANGED <<dpWeightsBuffer, dpParams>>
          /\ IF mode = "upload"
               THEN /\ cpc' = "uploadWeights"
                    /\ UNCHANGED runs
               ELSE EndRun
  /\ UNCHANGED sent
  /\ UNCHANGED <<service, library, registration, access>>

\* The server's upload path is not running.
ServiceUnused ==
  /\ config = DefaultConfig
  /\ learningRate = DefaultLearningRate
  /\ historyWritable = TRUE
  /\ backupWritable = TRUE
  /\ store = [k \in Keys |-> NotFound]
  /\ writer = [k \in Keys |-> 0]
  /\ pc = [p \in Procs |-> "idle"]
  /\ req = [p \in Procs |-> NoRequest]
  /\ fetched = [p \in Procs |-> "none"]
  /\ baseline = [p \in Procs |-> Null]
  /\ merged = [p \in Procs |-> Null]
  /\ attempt = [p \in Procs |-> 0]
  /\ events = [p \in Procs |-> <<>>]
  /\ history = [p \in Procs |-> <<>>]
  /\ backups = [p \in Procs |-> <<>>]
  /\ resp = [p \in Procs |-> NoResponse]

InitClient ==
  /\ ServiceUnused
  /\ mergeIn = NoCall
  /\ mergeOut = NoCall
  /\ mergeHistory = <<>>
  /\ privIn = NoCall
  /\ privOut = NoCall
  /\ ClientStart({NoFile, Bytes(V(8, 8), 0)})
  /\ registration = NoRegistration
  /\ acl = NoAcl
  /\ server = ReadyServer

NextClient ==
  \/ \E ok \in BOOLEAN : \E w \in TrainedWeights : ClientTrain(ok, w)
  \/ \E round \in Rounds : \E params \in DpParamChoices :
       ClientConfigure(round, params)
  \/ \E readOk \in BOOLEAN : ClientApplyPrivacy(readOk)
  \/ \E outcome \in ClientOutcomes : ClientWriteFile(outcome)
  \/ \E readOk \in BOOLEAN : \E params \in DpParamChoices :
       ClientUpload(readOk, params)
  \/ \E ok \in BOOLEAN : ClientCleanup(ok)
  \/ \E ok \in BOOLEAN : \E w \in TrainedWeights : \E menu \in BOOLEAN :
       ClientTrainAndUpload(ok, w, menu)
  \/ \E round \in Rounds : ClientAskRound(round)
  \/ \E readOk \in BOOLEAN : ClientUploadWeights(readOk)
  \/ \E readOk \in BOOLEAN : ClientMenuUpload(readOk)
  \/ \E filePath \in {"local", "dp"} : \E readOk \in BOOLEAN :
       ClientUploadPath(filePath, readOk)
  \/ \E ok \in BOOLEAN : \E w \in TrainedWeights :
       \E mode \in TrainingModes :
         \E okDP \in BOOLEAN : \E wDP \in TrainedWeights :
           ClientRunTrainingWithOptions(ok, w, mode, okDP, wDP)

SpecClient == InitClient /\ [][NextClient]_vars

----------------------------------------------------------------------------
(* Properties                                                              *)

IsPut(e) == e.op = "put"

PutsOf(p) == SelectSeq(events[p], IsPut)

AllPutsFailed(p) == \A i \in 1..Len(PutsOf(p)) : ~PutsOf(p)[i].ok

SomePutOk(p) == \E i \in 1..Len(PutsOf(p)) : PutsOf(p)[i].ok

Answered(p) == pc[p] = "done"

\* What one update merged into baseline b gives.
MergeOne(p, b) == federatedAverage(<<UpdateOf(p)>>, b, learningRate, TRUE).data

\* C1: an audit record is appended only after the put of the merged state has
\* succeeded: an invocation with a record has a successful put, an invocation
\* whose three puts all failed has none, and a successful one has exactly one.
C1_AuditOnlyAfterPut ==
  \A p \in Procs :
    /\ history[p] # <<>> => SomePutOk(p)
    /\ (Answered(p) /\ Len(PutsOf(p)) = 3 /\ AllPutsFailed(p)) => history[p] = <<>>
    /\ (Answered(p) /\ resp[p].success) => Len(history[p]) = 1

\* C2: the stored state is the last writer's merge of its update into the
\* baseline it fetched itself: when two invocations for one key fetched the
\* same baseline B and both put successfully, the store holds the later
\* writer's merge into B, whatever the earlier writer stored in between.
C2_LastWriterWins ==
  \A p, q \in Procs :
    ( /\ p # q
      /\ Answered(p) /\ resp[p].success
      /\ Answered(q) /\ resp[q].success
      /\ KeyOf(p) = KeyOf(q)
      /\ IsBytes(baseline[p]) /\ baseline[p] = baseline[q]
      /\ writer[KeyOf(q)] = q )
    => store[KeyOf(q)] = MergeOne(q, baseline[q])

\* C2 witness: both fetched the same two-float baseline, both were answered
\* with success, and the store holds neither serial result: the first
\* writer's update is lost.
C2_LostUpdateReached ==
  /\ NumRequests >= 2
  /\ Answered(1) /\ resp[1].success /\ Answered(2) /\ resp[2].success
  /\ IsBytes(baseline[1]) /\ baseline[1] = baseline[2]
  /\ Len(baseline[1].w) = 2
  /\ writer[KeyOf(2)] = 2
  /\ store[KeyOf(2)] = MergeOne(2, baseline[2])
  /\ store[KeyOf(2)] # MergeOne(2, MergeOne(1, baseline[1]))
  /\ store[KeyOf(2)] # MergeOne(1, MergeOne(2, baseline[1]))

\* C3: when all three put attempts fail, processUpdate throws and the
\* handler answers 500 with success = false.
C3_ExhaustionAnswers500 ==
  \A p \in Procs :
    (Len(PutsOf(p)) = 3 /\ AllPutsFailed(p))
    => /\ Answered(p)
       /\ resp[p].status = 500
       /\ ~resp[p].success
       /\ resp[p].details = "Failed to save global model"

C3_ExhaustionReached ==
  \E p \in Procs :
    /\ Len(PutsOf(p)) = 3 /\ AllPutsFailed(p)
    /\ resp[p].status = 500

\* C4: when put attempt k succeeds after k - 1 failures, exactly k puts were
\* sent, none follows the successful one, and the request is answered with
\* success.
C4_StopsAtFirstSuccess ==
  \A p \in Procs :
    \A k \in 1..Len(PutsOf(p)) :
      PutsOf(p)[k].ok
      => /\ k = Len(PutsOf(p))
         /\ PutsOf(p)[k].n = k
         /\ \A i \in 1..(k - 1) : ~PutsOf(p)[i].ok
         /\ attempt[p] = k
         /\ k <= 3
         /\ pc[p] \in {"backup", "done"}
         /\ Answered(p) => (resp[p].success /\ resp[p].status = 200)

\* C4 witness: one request succeeded on its third put, another on its first.
C4_ThirdAndFirstReached ==
  \E p, q \in Procs :
    /\ Answered(p) /\ resp[p].success
    /\ Len(PutsOf(p)) = 3 /\ PutsOf(p)[3].ok /\ attempt[p] = 3
    /\ Answered(q) /\ resp[q].success
    /\ Len(PutsOf(q)) = 1 /\ attempt[q] = 1

\* What is left of saveGlobalModel's loop: two steps for every attempt not
\* yet made, one more while a put is in flight.
RetryMeasure(p) == 2 * (3 - attempt[p]) + (IF pc[p] = "put" THEN 1 ELSE 0)

InSave(p) == pc[p] \in {"put", "backoff"}

\* C5: the persist loop is bounded: an invocation sends at most three puts,
\* every step inside the loop brings it nearer its end, and the third put's
\* answer ends it (the backup write of Done, or the 500 of Failed).
C5_RetryBounded ==
  /\ [](\A p \in Procs :
          /\ attempt[p] <= 3
          /\ Len(PutsOf(p)) <= attempt[p]
          /\ InSave(p) => RetryMeasure(p) >= 0
          /\ Len(PutsOf(p)) = 3 => pc[p] \in {"backup", "done"})
  /\ [][\A p \in Procs :
          (InSave(p) /\ <<pc[p], attempt[p], events[p]>>' # <<pc[p], attempt[p], events[p]>>)
          => \/ ~InSave(p)'
             \/ RetryMeasure(p)' < RetryMeasure(p)]_vars

C5_ThreePutsReached ==
  \E p \in Procs : attempt[p] = 3 /\ pc[p] = "put"

\* C6: a failed put number a < 3 is followed by a wait of a * 1000 ms before
\* the next put; nothing is waited before the first put or after the third.
C6_LinearBackoff ==
  \A p \in Procs :
    LET ev == events[p] IN
    \A i \in 1..Len(ev) :
      /\ ev[i].op = "wait"
         => /\ i > 1
            /\ ev[i - 1].op = "put" /\ ~ev[i - 1].ok
            /\ ev[i - 1].n = ev[i].n
            /\ ev[i].n \in {1, 2}
            /\ ev[i].ms = ev[i].n * 1000
      /\ (ev[i].op = "put" /\ ev[i].n = 1) => i = 1
      /\ (ev[i].op = "put" /\ ev[i].n > 1)
         => (i > 1 /\ ev[i - 1].op = "wait" /\ ev[i - 1].n = ev[i].n - 1)
      /\ (ev[i].op = "put" /\ ~ev[i].ok /\ ev[i].n < 3)
         => (i < Len(ev) /\ ev[i + 1].op = "wait")
      /\ (ev[i].op = "put" /\ ev[i].n = 3) => i = Len(ev)

\* C6 witness: puts 1 and 2 failed and were followed by 1000 and 2000 ms,
\* put 3 failed and the request was answered at once.
C6_BothWaitsReached ==
  \E p \in Procs :
    /\ Len(events[p]) = 5
    /\ events[p][2].op = "wait" /\ events[p][2].ms = 1000
    /\ events[p][4].op = "wait" /\ events[p][4].ms = 2000
    /\ events[p][5].op = "put" /\ ~events[p][5].ok
    /\ Answered(p)

\* C7: when the GET of the baseline gives a non-ok status, an empty body or
\* throws, the baseline is absent and a well-formed update is merged as a
\* first contribution (the merged model is the update) and goes on to the put.
C7_FetchFailOpen ==
  \A p \in Procs :
    fetched[p] \in {"failed", "empty"}
    => /\ baseline[p] = Null
       /\ Decodable(req[p].body)
          => /\ merged[p] = req[p].body
             /\ attempt[p] >= 1 \/ pc[p] = "history"

\* C7 witness: one request met an empty file, another a failed GET, and both
\* were answered with success.
C7_EmptyAndFailedReached ==
  \E p, q \in Procs :
    /\ fetched[p] = "empty" /\ fetched[q] = "failed"
    /\ resp[p].success /\ resp[q].success
    /\ merged[p] = req[p].body /\ merged[q] = req[q].body

\* C8: whatever the store returns for the baseline, a request with a
\* well-formed update reaches the put and does not fail because of the
\* baseline.
C8_BaselineNeverBlocks ==
  \A p \in Procs :
    (fetched[p] # "none" /\ Decodable(req[p].body))
    => /\ attempt[p] >= 1 \/ pc[p] = "history"
       /\ resp[p].details # "RangeError"

\* C9: a baseline whose length differs from the update's makes the merge
\* fail: the request is answered with a failure and nothing is put.
C9_MismatchedBaselineRejected ==
  \A p \in Procs :
    ( /\ IsBytes(baseline[p]) /\ Decodable(baseline[p])
      /\ Decodable(req[p].body)
      /\ Len(baseline[p].w) # Len(req[p].body.w) )
    => /\ Answered(p) /\ ~resp[p].success
       /\ attempt[p] = 0
       /\ merged[p] = Null

\* C10: a call whose updates do not all have one length throws and returns
\* no result.
C10_UnequalUpdatesThrow ==
  ( /\ mergeOut # NoCall
    /\ \E i, j \in 1..Len(mergeIn.updates) :
         ByteLength(mergeIn.updates[i].data) # ByteLength(mergeIn.updates[j].data) )
  => ~mergeOut.ok

\* C10 witness: two decodable updates of one and of two floats were refused
\* by the size check.
C10_SizeMismatchReached ==
  /\ mergeOut = Thrown("SizeMismatch")
  /\ Len(mergeIn.updates) = 2
  /\ Len(mergeIn.updates[1].data.w) = 2
  /\ Len(mergeIn.updates[2].data.w) = 1

\* C11: a call with an empty updates list fails with the NoUpdates error,
\* returns no result and writes no history record.
C11_EmptyUpdatesNoUpdates ==
  (mergeOut # NoCall /\ mergeIn.updates = <<>>)
  => /\ mergeOut = Thrown("NoUpdates")
     /\ mergeHistory = <<>>

\* The weights of the updates of the direct call, and their element-wise mean
\* computed as one sum and one division.
MergeWeights == [k \in 1..Len(mergeIn.updates) |-> mergeIn.updates[k].data.w]

RECURSIVE SumAt(_, _, _)
SumAt(ws, i, k) == IF k = 0 THEN Zero ELSE RAdd(SumAt(ws, i, k - 1), ws[k][i])

MeanOf(ws) ==
  [i \in 1..Len(ws[1]) |-> RDivInt(SumAt(ws, i, Len(ws)), Len(ws))]

\* The float32 r is the real x up to n roundings: it has the sign of x, is 0
\* when x is, and is off by at most n * 2^-24 of x.
RoundedWithin(r, x, n) ==
  /\ x[1] = 0 => r[1] = 0
  /\ (x[1] > 0) = (r[1] > 0)
  /\ Abs(r[1] * x[2] - x[1] * r[2]) * Pow2(24) <= n * Abs(x[1]) * r[2]

\* C12: without a baseline the result is the equal-weight element-wise mean of
\* the updates, whatever the learning rate: every element is the mean of the
\* updates' elements up to the roundings of the float32 sum, one per update;
\* for a single update the result is that update unchanged.
C12_NoBaselineIsMean ==
  (mergeOut # NoCall /\ mergeOut.ok /\ mergeIn.currentGlobalModel = Null)
  => LET mean == MeanOf(MergeWeights)
     IN /\ mergeOut.data.extra = 0
        /\ Len(mergeOut.data.w) = Len(mean)
        /\ \A i \in 1..Len(mean) :
             RoundedWithin(mergeOut.data.w[i], mean[i], Len(mergeIn.updates))
        /\ Len(mergeIn.updates) = 1
             => mergeOut.data = mergeIn.updates[1].data

C12_MeanOfTwoReached ==
  /\ mergeOut = Returned(Bytes(V(1, 1), 0))
  /\ mergeIn.currentGlobalModel = Null
  /\ Len(mergeIn.updates) = 2
  /\ mergeIn.updates[1].data = Bytes(V(2, 0), 0)
  /\ mergeIn.updates[2].data = Bytes(V(0, 2), 0)

\* The direct call was given a baseline that federatedAverage reads (the call
\* is an asynchronous update, as every call of the service is) and whose
\* length is that of the updates.
MatchingBaseline ==
  /\ mergeOut # NoCall /\ mergeOut.ok
  /\ mergeIn.isAsyncUpdate
  /\ IsBytes(mergeIn.currentGlobalModel)
  /\ mergeIn.currentGlobalModel.extra = 0
  /\ Len(mergeIn.currentGlobalModel.w) = Len(MergeWeights[1])

C14_ZeroRateKeepsBaseline ==
  (MatchingBaseline /\ mergeIn.learningRate = Zero)
  => mergeOut.data = mergeIn.currentGlobalModel

\* C15: processUpdate carries no state from one invocation to another.  The
\* step in which an invocation's GET is answered takes the baseline from what
\* the store holds at that step (or takes none), computes the merged result
\* from that baseline, the submitted bytes and the configured learning rate
\* alone, and leaves the baseline and result of every other invocation as
\* they are.
C15_NoCrossInvocationState ==
  [][\A p \in Procs :
       (pc[p] = "fetch" /\ pc'[p] # "fetch")
       => /\ baseline'[p] \in {Null, store[KeyOf(p)]}
          /\ LET r == federatedAverage(<<UpdateOf(p)>>, baseline'[p],
                                       learningRate, TRUE)
             IN merged'[p] = IF r.ok THEN r.data ELSE Null
          /\ \A q \in Procs \ {p} :
               baseline'[q] = baseline[q] /\ merged'[q] = merged[q]]_vars

\* The second invocation fetched after the first one's put: its baseline is
\* the first one's result, not the baseline the first one saw.
C15_RefetchedReached ==
  \E p \in Procs : \E q \in Procs \ {p} :
    /\ KeyOf(p) = KeyOf(q)
    /\ IsBytes(baseline[p]) /\ IsBytes(merged[p]) /\ IsBytes(merged[q])
    /\ baseline[q] = merged[p]
    /\ baseline[q] # baseline[p]
    /\ merged[q] = MergeOne(q, merged[p])
    /\ merged[q] # MergeOne(q, baseline[p])

\* C16: all-or-nothing visibility.  What a key holds is at every moment either
\* what it held before any write or the complete merged vector of the one
\* invocation that wrote it last; the content of a key changes only in the
\* step that answers an invocation's PUT with success, and then to that
\* invocation's whole result, as long as its submitted vector.  A PUT that
\* fails changes nothing.
C16_AllOrNothing ==
  /\ [](\A k \in Keys :
          writer[k] # 0 =>
            /\ store[k] = merged[writer[k]]
            /\ Decodable(store[k])
            /\ Len(store[k].w) = Len(req[writer[k]].body.w))
  /\ [][\A k \in Keys :
          store'[k] # store[k] =>
            \E p \in Procs :
              /\ pc[p] = "put" /\ KeyOf(p) = k
              /\ store'[k] = merged[p]
              /\ SomePutOk(p)']_vars

\* A key holds one invocation's complete result while another invocation,
\* whose first put has failed, is still inside its persist loop.
C16_WrittenDuringFailedPutsReached ==
  \E k \in Keys : \E p \in Procs : \E q \in Procs \ {p} :
    /\ writer[k] = p
    /\ store[k] = merged[p]
    /\ Len(merged[p].w) = 2
    /\ InSave(q) /\ KeyOf(q) = k
    /\ Len(PutsOf(q)) >= 1 /\ AllPutsFailed(q)

\* What an invocation has written durably: the content of the key it wrote
\* last, and its local backup files.
WrittenBy(p) ==
  {store[k] : k \in {j \in Keys : writer[j] = p}}
    \cup {backups[p][i].data : i \in 1..Len(backups[p])}

\* C17 as claimed: nothing an invocation writes to the store or to the local
\* backup is a byte-for-byte copy of the update it was sent, a first
\* contribution without a baseline included.
C17_RawUpdateNeverStored ==
  \A p \in Procs : req[p].body \notin WrittenBy(p)

\* The merge of this invocation blended its update into a baseline.
BlendedIntoBaseline(p) ==
  /\ IsBytes(baseline[p])
  /\ Len(baseline[p].w) = Len(req[p].body.w)

\* C17, amended: everything an invocation writes to the store or to the local
\* backup is the result of its merge; and when the merge blended the update
\* into no baseline (none stored, an empty one, a failed fetch, one of
\* another length) that result has the values of the submitted update, so
\* that a first contribution is stored as it was sent.
C17_StoredIsMergeResult ==
  \A p \in Procs :
    /\ WrittenBy(p) \subseteq {merged[p]}
    /\ (IsBytes(merged[p]) /\ ~BlendedIntoBaseline(p))
         => merged[p] = req[p].body

\* A first contribution stored and backed up as submitted, and a later one
\* stored and backed up as a blend that differs from what was submitted.
C17_RawAndBlendedReached ==
  \E k \in Keys : \E p \in Procs : \E q \in Procs \ {p} :
    /\ baseline[p] = Null
    /\ Len(backups[p]) = 1 /\ backups[p][1].data = req[p].body
    /\ BlendedIntoBaseline(q)
    /\ writer[k] = q
    /\ store[k] = merged[q]
    /\ Len(backups[q]) = 1 /\ backups[q][1].data = merged[q]
    /\ merged[q] # req[q].body

\* A direct call of the named privacy.js function has returned or thrown.
PrivacyCalled(fn) == privOut # NoCall /\ privOut.fn = fn

\* The parameters and weights the privacy contract calls invalid.
InvalidPrivacyInput ==
  \/ ~RLess(Zero, privIn.epsilon)
  \/ ~(RLess(Zero, privIn.delta) /\ RLess(privIn.delta, One))
  \/ ~RLess(Zero, privIn.l2NormClip)
  \/ ByteLength(privIn.weightsBuffer) = 0

\* C18: applyDifferentialPrivacy rejects an epsilon <= 0, a delta outside
\* (0, 1), an l2NormClip <= 0 and empty weights with InvalidParameter, and
\* returns no weight vector for them.
C18_InvalidInputRejected ==
  (PrivacyCalled("applyDifferentialPrivacy") /\ InvalidPrivacyInput)
  => privOut.result = Thrown("InvalidParameter")

\* The sum of the squares of the first k elements, as a real number.
RECURSIVE SquareSum(_, _)
SquareSum(vector, k) ==
  IF k = 0 THEN Zero
  ELSE RAdd(SquareSum(vector, k - 1), RMul(vector[k], vector[k]))

\* x / y for y # 0.
RDiv(x, y) ==
  IF IsNaN(x) \/ IsNaN(y) THEN NaN
  ELSE IF y[1] < 0 THEN RNorm(-(x[1] * y[2]), x[2] * (-y[1]))
  ELSE RNorm(x[1] * y[2], x[2] * y[1])

ISqrt(n) == CHOOSE r \in 0..n : r * r = n

\* The square root of the square of a fraction.
RSqrt(x) == IF IsNaN(x) THEN NaN ELSE <<ISqrt(x[1]), ISqrt(x[2])>>

\* The L2 norm of the input of the direct call is at most its threshold,
\* decided on the squares.
NormWithinClip ==
  /\ Decodable(privIn.weightsBuffer)
  /\ ~RLess(privIn.l2NormClip, Zero)
  /\ ~RLess(RMul(privIn.l2NormClip, privIn.l2NormClip),
            SquareSum(privIn.weightsBuffer.w, Len(privIn.weightsBuffer.w)))

\* C19: for a vector whose L2 norm is at most the threshold, the norm equal
\* to the threshold included, clipWeights returns the input unchanged, and so
\* does the clipping step of applyDifferentialPrivacy.
C19_ClipNoOpWithinThreshold ==
  NormWithinClip
  => /\ PrivacyCalled("clipWeights")
          => privOut.result = Returned(privIn.weightsBuffer)
     /\ (PrivacyCalled("applyDifferentialPrivacy")
           /\ RLess(Zero, privIn.l2NormClip))
          => privOut.result.data.clipped = privIn.weightsBuffer.w

\* [3,4] has norm 5: with the threshold 5 it is returned as it is.
C19_NormEqualsThresholdReached ==
  /\ PrivacyCalled("clipWeights")
  /\ privIn.weightsBuffer = Bytes(V(3, 4), 0)
  /\ privIn.l2NormClip = <<5, 1>>
  /\ privOut.result = Returned(Bytes(V(3, 4), 0))

\* The input of the direct call needs clipping: its L2 norm is above a
\* positive threshold, decided on the squares.
NormAboveClip ==
  /\ Decodable(privIn.weightsBuffer)
  /\ RLess(Zero, privIn.l2NormClip)
  /\ RLess(RMul(privIn.l2NormClip, privIn.l2NormClip),
           SquareSum(privIn.weightsBuffer.w, Len(privIn.weightsBuffer.w)))

\* Element i of the input times l2NormClip / norm, as a real number (the
\* norms of the vectors checked are fractions).
ScaledExactly(i) ==
  RMul(privIn.weightsBuffer.w[i],
       RDiv(privIn.l2NormClip,
            RSqrt(SquareSum(privIn.weightsBuffer.w,
                            Len(privIn.weightsBuffer.w)))))

\* Squares of the float32 values do not fit the integers of the checker: a
\* natural number X below 2^27 is squared in three limbs of 14 bits,
\* <<hi, mid, lo>> standing for hi * 2^28 + mid * 2^14 + lo.
Limb == Pow2(14)

SquareLimbs(x) ==
  LET a == x \div Limb
      b == x % Limb
  IN <<a * a, 2 * a * b, b * b>>

RECURSIVE SumSquareLimbs(_, _)
SumSquareLimbs(xs, k) ==
  IF k = 0 THEN <<0, 0, 0>>
  ELSE LET s == SumSquareLimbs(xs, k - 1)
           t == SquareLimbs(xs[k])
       IN <<s[1] + t[1], s[2] + t[2], s[3] + t[3]>>

\* Carries propagated: mid and lo below 2^14.
Carried(t) ==
  LET mid == t[2] + t[3] \div Limb
  IN <<t[1] + mid \div Limb, mid % Limb, t[3] % Limb>>

LimbsLess(s, t) ==
  \/ s[1] < t[1]
  \/ s[1] = t[1] /\ s[2] < t[2]
  \/ s[1] = t[1] /\ s[2] = t[2] /\ s[3] < t[3]

MaxOf(S) == CHOOSE m \in S : \A n \in S : n <= m

\* The L2 norm of the vector w of float32 values is above the threshold
\* clip > 0: with D the common (power of two) denominator of w and clip = c/d,
\* the sum of the squares of |w[i]| * D * d is above the square of c * D.
NormExceeds(w, clip) ==
  LET D == MaxOf({1} \cup {w[i][2] : i \in 1..Len(w)})
      xs == [i \in 1..Len(w) |-> Abs(w[i][1]) * (D \div w[i][2]) * clip[2]]
  IN LimbsLess(Carried(SquareLimbs(clip[1] * D)),
               Carried(SumSquareLimbs(xs, Len(xs))))

\* C20 as claimed: a vector whose norm is above the threshold comes back with
\* every element multiplied by l2NormClip / norm, and the norm of what comes
\* back is l2NormClip, never more.
C20_ClippedNormNeverAbove ==
  (PrivacyCalled("clipWeights") /\ NormAboveClip)
  => /\ \A i \in 1..Len(privIn.weightsBuffer.w) :
          privOut.result.data.w[i] = ScaledExactly(i)
     /\ ~NormExceeds(privOut.result.data.w, privIn.l2NormClip)

\* The float32 r is the real x up to a relative error of 2^-24, with the sign
\* of x, and is 0 when x is.
RoundsTo(r, x) ==
  /\ x[1] = 0 => r[1] = 0
  /\ (x[1] > 0) = (r[1] > 0)
  /\ Abs(r[1] * x[2] - x[1] * r[2]) * Pow2(24) <= Abs(x[1]) * r[2]

\* C20, amended: a vector whose norm is above the threshold comes back with
\* the same length and every element equal to the input's element times
\* l2NormClip / norm rounded to float32: same sign, zeros kept, relative error
\* at most 2^-24.  (The norm of the result is l2NormClip up to that rounding,
\* and can be above it.)
C20_ClippedToRoundedScale ==
  (PrivacyCalled("clipWeights") /\ NormAboveClip)
  => /\ privOut.result.ok
     /\ Len(privOut.result.data.w) = Len(privIn.weightsBuffer.w)
     /\ \A i \in 1..Len(privIn.weightsBuffer.w) :
          RoundsTo(privOut.result.data.w[i], ScaledExactly(i))

\* [3,4] with threshold 1 gives the floats nearest 0.6 and 0.8, whose norm is
\* above 1.
C20_SpecExampleReached ==
  /\ PrivacyCalled("clipWeights")
  /\ privIn.weightsBuffer = Bytes(V(3, 4), 0)
  /\ privIn.l2NormClip = One
  /\ privOut.result.data.w = <<Float32Of(ToDouble(<<3, 5>>)), Float32Of(ToDouble(<<4, 5>>))>>
  /\ NormExceeds(privOut.result.data.w, privIn.l2NormClip)

\* The parameters of the cost estimate are those of the privacy contract.
ValidCostInput ==
  /\ RLess(Zero, privIn.epsilon)
  /\ RLess(Zero, privIn.delta) /\ RLess(privIn.delta, One)
  /\ RLess(Zero, privIn.sampleRate) /\ ~RLess(One, privIn.sampleRate)

\* x <= y for two estimates c * sqrt(L * r) with c >= 0, r >= 0 and the same
\* logarithm L > 0: the squares c * c * r are compared.
CostAtMost(x, y) ==
  /\ x.kind = "root" /\ y.kind = "root"
  /\ x.logOfInverse = y.logOfInverse
  /\ ~RLess(RMul(RMul(y.coefficient, y.coefficient), y.radicand),
            RMul(RMul(x.coefficient, x.coefficient), x.radicand))

\* C21: for epsilon > 0, delta in (0, 1) and a sample rate in (0, 1], the
\* estimated epsilon does not decrease when the iterations grow, and the
\* returned delta is the delta given.
C21_CostMonotoneInIterations ==
  (PrivacyCalled("computePrivacyCost") /\ ValidCostInput)
  => /\ privIn.iterations[1] <= privIn.iterations[2]
          => CostAtMost(privOut.result[1].epsilon, privOut.result[2].epsilon)
     /\ \A k \in 1..2 : privOut.result[k].delta = privIn.delta

\* Estimates for 1 and 3 iterations: the second is strictly larger.
C21_OneAndThreeIterationsReached ==
  /\ PrivacyCalled("computePrivacyCost") /\ ValidCostInput
  /\ privIn.iterations = <<1, 3>>
  /\ CostAtMost(privOut.result[1].epsilon, privOut.result[2].epsilon)
  /\ ~CostAtMost(privOut.result[2].epsilon, privOut.result[1].epsilon)

\* trainWithDP is running: its trainer has run and it has not returned.
InTrainWithDP ==
  cpc \in {"configure", "privatize", "write", "upload", "cleanup"}

\* C22: on the trainWithDP path (called from the menu or by
\* runTrainingWithOptions with useDP) every body sent to /upload is the
\* output of applyDifferentialPrivacy on the weights of localWeights.bin
\* under the parameters of the run, and is marked as such; in that path a
\* body is sent only by the upload step, so a run in which
\* applyDifferentialPrivacy throws or the write of dp_weights.bin fails
\* sends nothing -- never the trainer's bytes, a file left over by an earlier
\* run or a file cut short.  (The functions that upload without privacy,
\* uploadWeights and trainAndUpload, send the trainer's bytes and mark them
\* 'privacy-applied: false' or not at all; uploadDPWeights and the older
\* uploadWeights called on their own, outside trainWithDP, send whatever
\* the file they read holds.)
C22_OnlyPrivatizedUploaded ==
  /\ [](\A i \in 1..Len(sent) :
          \/ /\ sent[i].via = "uploadDPWeights"
             /\ sent[i].caller = "trainWithDP"
             /\ sent[i].body.kind = "privatized"
             /\ sent[i].privacyApplied = "true"
          \/ /\ sent[i].via = "uploadDPWeights"
             /\ sent[i].caller = "none"
          \/ /\ sent[i].via = "uploadWeights"
             /\ "privacyApplied" \in DOMAIN sent[i]
             /\ sent[i].privacyApplied = "false"
          \/ /\ sent[i].via \in {"uploadWeights", "trainAndUpload"}
             /\ "privacyApplied" \notin DOMAIN sent[i])
  /\ [][(sent' # sent /\ InTrainWithDP) =>
          LET r == applyDifferentialPrivacy(files.local, dpParams)
          IN /\ cpc = "upload"
             /\ r.ok
             /\ Len(sent') = Len(sent) + 1
             /\ SubSeq(sent', 1, Len(sent)) = sent
             /\ sent'[Len(sent')].via = "uploadDPWeights"
             /\ sent'[Len(sent')].caller = "trainWithDP"
             /\ sent'[Len(sent')].body = r.data
             /\ sent'[Len(sent')].epsilon = dpParams.epsilon
             /\ sent'[Len(sent')].delta = dpParams.delta
             /\ sent'[Len(sent')].l2NormClip = dpParams.l2NormClip]_vars

\* One run uploaded the privatized [3,4]; the other found its write of
\* dp_weights.bin failing part way and uploaded nothing.
C22_UploadAndFailedWriteReached ==
  /\ runs = 2 /\ cpc = "idle"
  /\ Len(sent) = 1
  /\ sent[1].via = "uploadDPWeights"
  /\ sent[1].caller = "trainWithDP"
  /\ sent[1].body.kind = "privatized"
  /\ sent[1].body.clipped = <<Float32Of(ToDouble(<<3, 5>>)), Float32Of(ToDouble(<<4, 5>>))>>
  /\ files.dp = PartialFile
  /\ IsBytes(files.local)

\* C23: with history saving disabled in the configuration no invocation
\* writes an aggregation history record.
C23_NoHistoryWhenDisabled ==
  ~config.saveHistory => \A p \in Procs : history[p] = <<>>

\* C24: with backups disabled in the configuration no invocation writes a
\* local backup file.
C24_NoBackupWhenDisabled ==
  ~config.backupModels => \A p \in Procs : backups[p] = <<>>

\* The backup files on the disk for a model: the files in its directory
\* that no later write has replaced.
BackupCount(modelName) ==
  Cardinality(UNION {{backups[q][i].name : i \in
                        {j \in 1..Len(backups[q]) :
                           /\ backups[q][j].kept
                           /\ backups[q][j].name[1] = modelName}} :
                     q \in Procs})

\* C25: the backups kept for a model are never more than the configured
\* maximum.
C25_BackupsWithinMaximum ==
  \A n \in ModelNames : BackupCount(n) <= config.maxBackups

\* C26: audit and backup writes are best-effort.  An invocation one of whose
\* puts succeeded goes on to answer 200 with the location of the model,
\* whether or not the history record and the backup file could be written.
C26_AuditAndBackupBestEffort ==
  \A p \in Procs :
    SomePutOk(p)
    => /\ pc[p] \in {"backup", "done"}
       /\ Answered(p) => /\ resp[p].success
                         /\ resp[p].status = 200
                         /\ resp[p].url = KeyOf(p)

\* Neither the history record nor the backup could be written, and the
\* invocation has answered 200.
C26_BothWritesFailedReached ==
  \E p \in Procs :
    /\ ~historyWritable /\ ~backupWritable
    /\ SomePutOk(p) /\ Answered(p) /\ resp[p].success
    /\ history[p] = <<>> /\ backups[p] = <<>>

\* C27: a location token is returned only by an invocation one of whose puts
\* succeeded (its last one); the token is the location of the model the
\* request named; and the step in which that put succeeds leaves this
\* invocation's merged vector under that key.
C27_TokenOnlyAfterWrite ==
  /\ [](\A p \in Procs :
          resp[p].success =>
            /\ SomePutOk(p)
            /\ PutsOf(p)[Len(PutsOf(p))].ok
            /\ resp[p].url = getModelFolderUrl(req[p].modelName)
            /\ resp[p].url \in Keys
            /\ IsBytes(merged[p]))
  /\ [][\A p \in Procs :
          (~SomePutOk(p) /\ SomePutOk(p)') =>
            /\ store'[getModelFolderUrl(req[p].modelName)] = merged[p]
            /\ writer'[getModelFolderUrl(req[p].modelName)] = p]_vars

\* An invocation holds a token for a write made at its second attempt, and
\* the key has since been written by the other invocation.
C27_TokenThenOverwrittenReached ==
  \E p \in Procs :
    /\ resp[p].success
    /\ Len(PutsOf(p)) = 2
    /\ writer[resp[p].url] # p
    /\ store[resp[p].url] # merged[p]

\* C28: when the persist loop is exhausted, the failure reported to the caller
\* carries the model id, the round and the number of attempts made.
C28_ExhaustionFailureCarriesDetail ==
  \A p \in Procs :
    (Len(PutsOf(p)) = maxRetries /\ AllPutsFailed(p) /\ Answered(p))
    => /\ {"modelName", "round", "attempts"} \subseteq DOMAIN resp[p]
       /\ resp[p].modelName = req[p].modelName
       /\ resp[p].round = req[p].round
       /\ resp[p].attempts = maxRetries

\* C29: for a non-empty input applyDifferentialPrivacy returns as many
\* elements as it was given, odd lengths included.  Element i is the clipped
\* weight i plus one sample of its own: the cosine sample of pair j for
\* i = 2j - 1, the sine sample of pair j for i = 2j, pair j being made from
\* the draws 2j - 1 and 2j.  Two draws are made per pair, and for an odd
\* length the sine sample of the last pair is written nowhere.
C29_OneSamplePerElement ==
  ( /\ PrivacyCalled("applyDifferentialPrivacy")
    /\ privOut.result.ok
    /\ Len(privIn.weightsBuffer.w) > 0 )
  => LET n == Len(privIn.weightsBuffer.w)
         out == privOut.result.data
     IN /\ Len(out.noisy) = n
        /\ out.samples = n
        /\ out.draws = 2 * ((n + 1) \div 2)
        /\ \A i \in 1..n :
             /\ out.noisy[i].base = out.clipped[i]
             /\ out.noisy[i].sample =
                  LET j == (i + 1) \div 2
                  IN Sample(IF i % 2 = 1 THEN "cos" ELSE "sin",
                            2 * j - 1, 2 * j)
        /\ \A i \in 1..n : \A k \in 1..n :
             out.noisy[i].sample = out.noisy[k].sample => i = k

\* A vector of three floats: three samples from four draws.
C29_OddLengthReached ==
  /\ PrivacyCalled("applyDifferentialPrivacy")
  /\ privOut.result.ok
  /\ Len(privIn.weightsBuffer.w) = 3
  /\ Len(privOut.result.data.noisy) = 3
  /\ privOut.result.data.draws = 4
  /\ privOut.result.data.noisy[3].sample = Sample("cos", 3, 4)

\* C30: an upload concurrent with a registration for the same model never
\* loses the global model: under every interleaving of POST /register with
\* processUpdate, no step replaces a stored global model that has bytes by
\* the empty placeholder.
C30_PlaceholderNeverOverwritesModel ==
  [][\A k \in Keys :
       (IsBytes(store[k]) /\ ByteLength(store[k]) > 0)
         => store'[k] # EmptyBytes]_vars

\* A request without its webid, round or modelName header, or with a body of
\* no bytes.
IncompleteRequest(p) ==
  /\ req[p] # NoRequest
  /\ \/ req[p].webid = <<>>
     \/ req[p].round = ""
     \/ req[p].modelName = <<>>
     \/ (IsBytes(req[p].body) /\ Len(req[p].body.w) = 0
           /\ req[p].body.extra = 0)

C32_NoHandlerBeforeReady ==
  /\ server.serverReady =>
       /\ server.serviceSession = "loggedIn"
       /\ server.modelService = "constructed"
  /\ \A r \in Procs :
       /\ server.requests[r].at = "handler" =>
            server.serverReady /\ server.modelService = "constructed"
       /\ (server.requests[r].at # "none" /\ ~server.serverReady) =>
            server.requests[r].at = "held"

\* A request that arrived during the login is at its handler after the
\* initialisation succeeded, another is at its handler without a wait.
C32_HeldThenHandledReached ==
  \E r \in Procs : \E q \in Procs :
    /\ server.requests[r].at = "handler" /\ server.requests[r].waited
    /\ server.requests[q].at = "handler" /\ ~server.requests[q].waited

\* C33: initialisation is single-flight: at most one login is in flight,
\* one login and one ModelService serve every caller of initializeServer
\* while the initialisation is pending and after it has succeeded, and after
\* a failed initialisation initPromise is null, so that a call would start
\* a fresh attempt.
C33_SingleFlight ==
  /\ server.inFlight <= 1
  /\ server.inFlight = 1 <=> server.initPromise = "pending"
  /\ server.initPromise = "pending" => server.logins = 1 /\ server.services = 0
  /\ server.serverReady => server.logins = 1 /\ server.services = 1
  /\ server.serverReady => initializeServer(server) = server
  /\ server.exited =>
       /\ server.initPromise = "null"
       /\ initializeServer(server).logins = server.logins + 1
       /\ initializeServer(server).initPromise = "pending"

\* Every request called initializeServer while the one login was in flight.
C33_CallersShareLoginReached ==
  /\ \A r \in Procs : server.requests[r].at = "held"
  /\ server.initPromise = "pending"
  /\ server.logins = 1

\* The initialisation failed with a request waiting for it.
C33_FailedAttemptReached ==
  /\ server.exited
  /\ \E r \in Procs : server.requests[r].at = "held"

ReadOnly ==
  [read |-> TRUE, append |-> FALSE, write |-> FALSE, control |-> FALSE]

\* C34: registration grants read-only access.  After a POST /register that
\* succeeded, the agent it names has read and nothing else on the model
\* container, as resource access and as default access; and the only change
\* a step of a registration makes to an ACL is to give the agent it names
\* exactly that, so that no agent is ever given append, write or control and
\* what earlier registrations gave stays.
C34_RegistrationGrantsReadOnly ==
  /\ [](\A r \in Registrations :
          (registration[r].pc = "done" /\ registration[r].resp.success)
            => LET entry == acl[RegistrationKey(r)][registration[r].webId]
               IN entry = [resource |-> ReadOnly, default |-> ReadOnly])
  /\ [][\A k \in Keys : \A a \in Agents :
          acl'[k][a] # acl[k][a]
            => /\ \E r \in Registrations :
                    k = RegistrationKey(r) /\ a = registration[r].webId
               /\ acl'[k][a] = [resource |-> ReadOnly, default |-> ReadOnly]
        ]_vars

\* Two registrations for the same container have succeeded: alice, who had
\* full access before, and bob, who had none, both have read and nothing
\* else.
C34_BothAgentsRegisteredReached ==
  /\ \A r \in Registrations :
       registration[r].pc = "done" /\ registration[r].resp.success
  /\ registration[1].webId = <<"alice">>
  /\ registration[2].webId = <<"bob">>
  /\ RegistrationKey(1) = RegistrationKey(2)
  /\ \A a \in Agents :
       acl[RegistrationKey(1)][a] = [resource |-> ReadOnly, default |-> ReadOnly]

\* C35: every noise value generateGaussianNoise produces is finite, and the
\* draw u1 that goes into the logarithm is never 0: every draw lies strictly
\* between 0 and 1, whatever word the random source returns.
C35_NoiseAlwaysFinite ==
  ( /\ PrivacyCalled("applyDifferentialPrivacy")
    /\ privOut.result.ok
    /\ privOut.result.data.noiseScale \in {"positive", "negative", "zero"} )
  => LET out == privOut.result.data
     IN /\ \A i \in 1..Len(out.noise) : out.noise[i] = "finite"
        /\ \A k \in 1..out.draws : out.uniforms[k] = "inside"

\* C36: clipWeights and applyDifferentialPrivacy leave the caller's
\* weightsBuffer as it was, for a Buffer and for an ArrayBuffer, whether
\* clipping is applied or not.
C36_InputUnchanged ==
  (PrivacyCalled("clipWeights") \/ PrivacyCalled("applyDifferentialPrivacy"))
    => privOut.argument = privIn.weightsBuffer

\* x lies between a and b, the ends included.
Between(x, a, b) ==
  \/ (~RLess(x, a) /\ ~RLess(b, x))
  \/ (~RLess(x, b) /\ ~RLess(a, x))

\* The rate federatedAverage is given is one the engine uses: the configured
\* rate is in (0, 1], and a missing one (0) stands for the default 0.1.
EngineRate ==
  /\ ~RLess(mergeIn.learningRate, Zero)
  /\ ~RLess(One, mergeIn.learningRate)

\* C37: the merged value is a convex combination.  With a baseline of
\* matching length and a rate the engine uses, every element of the result
\* lies between the baseline's and that of the float32 average of the
\* updates, the ends included; and when that average is the baseline, the
\* result is the baseline.
C37_ConvexCombination ==
  (MatchingBaseline /\ EngineRate)
  => LET b == mergeIn.currentGlobalModel.w
         avg == Average(MergeWeights, Len(b))
     IN /\ Len(mergeOut.data.w) = Len(b)
        /\ \A i \in 1..Len(b) : Between(mergeOut.data.w[i], b[i], avg[i])
        /\ avg = b => mergeOut.data = mergeIn.currentGlobalModel

\* The update [2, 2] merged into the baseline [2, 2] at the default rate
\* 0.1 gives [2, 2].
C37_FixedPointReached ==
  /\ MatchingBaseline
  /\ Len(mergeIn.updates) = 1
  /\ mergeIn.updates[1].data = Bytes(V(2, 2), 0)
  /\ mergeIn.currentGlobalModel = Bytes(V(2, 2), 0)
  /\ mergeIn.learningRate = Zero
  /\ mergeOut = Returned(Bytes(V(2, 2), 0))

\* C38: distinct model names are kept apart.  Two invocations whose
\* modelName values differ work on different model keys, so that neither
\* fetches as its baseline, or overwrites, what the other stored.
C38_DistinctNamesDistinctKeys ==
  \A p \in Procs : \A q \in Procs :
    ( /\ req[p] # NoRequest /\ req[q] # NoRequest
      /\ req[p].modelName # req[q].modelName )
    => /\ getModelFolderUrl(req[p].modelName)
            # getModelFolderUrl(req[q].modelName)
       /\ \A k \in Keys :
            (writer[k] = q /\ fetched[p] = "ok") => baseline[p] # merged[q]

====
